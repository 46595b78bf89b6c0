------------------------- MODULE DecodeOperationProofs -------------------------
(* For every medium, budget, mailbox and ring, and however the demuxer, the     *)
(* three workers, the session and the player take turns: the packet router      *)
(* keeps its budget, and the operation answers what happened, as DecodeContract *)
(* promises.  IInv is the inductive invariant.  Its parts say what the threads  *)
(* hold (Types), what the router's counters count (Within, Counted), who is     *)
(* there at which stage (Stages), why a terminal state or an outcome came about *)
(* and that nothing comes about without one (Reasons, Traces, Drains), and      *)
(* where every packet that was read is (VideoCounted, AudioAccounted).          *)
EXTENDS DecodeOperation, FiniteSetTheorems, WellFoundedInduction, TLAPS

-------------------------------------------------------------------------------
(* The invariant.                                                               *)

WorkerRecord == [at : Places, codec : Seq(Nat), flushing : BOOLEAN, outcome : WorkerOutcomes]

(* The codecs are never fuller than a worker lets them be. *)
CodecOf(s) ==
    /\ worker[s].at \in {"absent", "prime"} => worker[s].codec = <<>>
    /\ worker[s].at = "pop" => Len(worker[s].codec) <= IF s = "video" THEN 1 ELSE 0
    /\ worker[s].flushing => worker[s].at \in {"decode", "done"} /\ s # "subtitle"
    /\ Len(worker[s].codec) <= 2

WorkerTypes == worker \in [Streams -> WorkerRecord] /\ \A s \in Streams : CodecOf(s)

Types ==
    /\ TypeOK /\ WorkerTypes
    /\ frames \in Seq(Nat) /\ blocks \in Seq(Nat)

(* How many packets the three queues hold. *)
PacketsIn(q) == Len(q["video"]) + Len(q["audio"]) + Len(q["subtitle"])

(* The counters count, and only one packet can be beyond the limit: beside it    *)
(* there are only packets without bytes.                                        *)
Beyond(s, i) ==
    /\ queue[s][i].bytes = queued.bytes
    /\ \A t \in Streams : \A j \in DOMAIN queue[t] : <<t, j>> # <<s, i>> => queue[t][j].bytes = 0

Within ==
    /\ queued.packets = PacketsIn(queue) /\ queued.packets <= PacketLimit
    /\ queued.bytes <= ByteLimit \/ \E s \in Streams : \E i \in DOMAIN queue[s] : Beyond(s, i)

(* Who is there at which stage. *)
Stages ==
    /\ answer = "none" <=> phase # "ended"
    /\ phase = "opening" => worker = [s \in Streams |-> Idle] /\ ~demux.on /\ terminal = "open"
    /\ phase = "running" =>
          /\ worker["video"].at # "absent"
          /\ HasAudio => worker["audio"].at # "absent"
    /\ \A s \in Streams : worker[s].outcome # "none" <=> worker[s].at = "done"

Grounds(outcome) ==
    /\ outcome = "error" => "fault" \in trouble \/ Of(media, "video") = {}
    /\ outcome = "stopped" => "closed" \in trouble
    /\ outcome = "cancelled" => stop

(* Why a terminal state, a stop or an outcome came about. *)
Reasons ==
    /\ terminal = "failed" => "fault" \in trouble /\ ~demux.on
    /\ terminal = "cancelled" => stop
    /\ terminal = "endOfStream" =>
          ~demux.on /\ demux.read = Len(media.packets) /\ demux.held = NoPacket
    /\ \A s \in Playable \ sinks : "closed" \in trouble
    /\ \A s \in Playable : Grounds(worker[s].outcome)

(* Nothing that happened is without a trace in what the threads returned. *)
Traces ==
    phase # "ended" =>
       /\ "fault" \in trouble => terminal = "failed" \/ \E s \in Playable : worker[s].outcome = "error"
       /\ stop => "told" \in trouble \/ \E s \in Playable : worker[s].outcome \in {"error", "stopped"}

(* A worker that flushes or has ended left nothing behind. *)
DrainsOf(s) ==
    /\ worker[s].flushing \/ worker[s].outcome = "ended" =>
          terminal = "endOfStream" /\ queue[s] = <<>>
    /\ worker[s].outcome = "ended" => worker[s].codec = <<>>
Drains == \A s \in Playable : DrainsOf(s)

(* Every video packet that was read is a frame handed over, or on its way. *)
First(m, s, n) == {i \in Of(m, s) : i <= n}
Holds(s) == IF demux.held.stream = s THEN 1 ELSE 0

VideoCounted ==
    /\ given["video"] + Len(worker["video"].codec) + Len(queue["video"]) + Holds("video")
          = Cardinality(First(media, "video", demux.read))
    /\ worker["video"].outcome = "ended" => given["video"] > 0

(* Every audio packet that was read sounds before due, or is on its way. *)
UnderWay(t) ==
    \/ \E j \in DOMAIN worker["audio"].codec : worker["audio"].codec[j] = t
    \/ \E j \in DOMAIN queue["audio"] : queue["audio"][j].at = t
    \/ demux.held.stream = "audio" /\ demux.held.at = t

Sounds(t) == t + 1 <= SoundEnd(media)

Paced ==
    /\ given["audio"] = due - media.start
    /\ media.start <= due /\ due <= SoundEnd(media)

Heard ==
    \A i \in First(media, "audio", demux.read) :
        media.packets[i].at < due \/ UnderWay(media.packets[i].at)

Bounded ==
    /\ \A j \in DOMAIN worker["audio"].codec : Sounds(worker["audio"].codec[j])
    /\ \A j \in DOMAIN queue["audio"] : Sounds(queue["audio"][j].at)
    /\ demux.held.stream = "audio" => Sounds(demux.held.at)

Led ==
    /\ worker["audio"].at \in {"prime", "pop", "decode"} => HasAudio
    /\ worker["audio"].at \in {"pop", "decode"} \/ worker["audio"].outcome = "ended" =>
          media.audioStart <= due

AudioAccounted == Paced /\ Heard /\ Bounded /\ Led

(* The prefix sums of a queue: what its bytes add up to.                         *)
Sums(q, f) ==
    /\ f \in [0 .. Len(q) -> Nat] /\ f[0] = 0
    /\ \A i \in 1 .. Len(q) : f[i] = f[i - 1] + q[i].bytes
    /\ \A i, j \in 0 .. Len(q) : i <= j => f[i] <= f[j]
Totals(q, n) == \E f : Sums(q, f) /\ f[Len(q)] = n

Counted ==
    /\ queued \in [packets : Nat, bytes : Nat]
    /\ \E v, a, s \in Nat :
          /\ Totals(queue["video"], v) /\ Totals(queue["audio"], a) /\ Totals(queue["subtitle"], s)
          /\ queued.bytes = v + a + s

IInv == /\ Types /\ Within /\ Counted /\ Stages /\ Reasons /\ Traces /\ Drains
        /\ VideoCounted /\ AudioAccounted

-------------------------------------------------------------------------------
(* Sums, and greatest and least elements.                                      *)

(* An empty queue holds no bytes.                                               *)
LEMMA TotalsEmpty == Totals(<<>>, 0)
<1> DEFINE f == [i \in 0 .. 0 |-> 0]
<1>1. Sums(<<>>, f)
  BY DEF Sums
<1>2. f[Len(<<>>)] = 0
  OBVIOUS
<1> HIDE DEF f
<1> QED BY <1>1, <1>2 DEF Totals

(* A queue holds the bytes of the packet appended, too.                         *)
LEMMA TotalsAppend ==
    ASSUME NEW q \in Seq(Packet), NEW p \in Packet, NEW n \in Nat, Totals(q, n)
    PROVE  Totals(Append(q, p), n + p.bytes)
<1>1. PICK f : Sums(q, f) /\ f[Len(q)] = n
  BY DEF Totals
<1> DEFINE r == Append(q, p)
           g == [i \in 0 .. Len(r) |-> IF i <= Len(q) THEN f[i] ELSE n + p.bytes]
<1>2. /\ Len(r) = Len(q) + 1 /\ Len(q) \in Nat /\ p.bytes \in Nat
      /\ \A i \in 1 .. Len(q) : r[i] = q[i]
      /\ r[Len(q) + 1] = p
  BY DEF Packet
<1>3. /\ f \in [0 .. Len(q) -> Nat] /\ f[0] = 0
      /\ \A i \in 1 .. Len(q) : f[i] = f[i - 1] + q[i].bytes
      /\ \A i, j \in 0 .. Len(q) : i <= j => f[i] <= f[j]
  BY <1>1 DEF Sums
<1> HIDE DEF r
<1>4. g \in [0 .. Len(r) -> Nat] /\ g[0] = 0 /\ g[Len(r)] = n + p.bytes
  BY <1>1, <1>2, <1>3
<1>5. \A i \in 1 .. Len(r) : g[i] = g[i - 1] + r[i].bytes
  <2> TAKE i \in 1 .. Len(r)
  <2>1. CASE i <= Len(q)
    <3>1. i \in 1 .. Len(q) /\ i - 1 \in 0 .. Len(r) /\ i \in 0 .. Len(r)
      BY <2>1, <1>2
    <3>2. g[i] = f[i] /\ g[i - 1] = f[i - 1]
      BY <3>1, <2>1, <1>2
    <3> QED BY <3>1, <3>2, <1>2, <1>3
  <2>2. CASE i = Len(q) + 1
    <3>1. g[i] = n + p.bytes /\ g[i - 1] = f[Len(q)]
      BY <2>2, <1>2
    <3> QED BY <3>1, <2>2, <1>1, <1>2
  <2> QED BY <2>1, <2>2, <1>2
<1>6. \A i, j \in 0 .. Len(r) : i <= j => g[i] <= g[j]
  <2> TAKE i, j \in 0 .. Len(r)
  <2> HAVE i <= j
  <2>1. \A k \in 0 .. Len(q) : f[k] \in Nat /\ f[k] <= n
    BY <1>1, <1>2, <1>3
  <2>2. CASE j <= Len(q)
    BY <2>2, <1>2, <1>3
  <2>3. CASE i <= Len(q) /\ j = Len(q) + 1
    <3>1. g[i] = f[i] /\ g[j] = n + p.bytes
      BY <2>3, <1>2
    <3> QED BY <3>1, <2>1, <2>3, <1>2
  <2>4. CASE i = Len(q) + 1 /\ j = Len(q) + 1
    BY <2>4, <1>2
  <2> QED BY <2>2, <2>3, <2>4, <1>2
<1> HIDE DEF g
<1> QED BY <1>4, <1>5, <1>6 DEF Sums, Totals, r

(* Without its head a queue holds that packet's bytes less, and at least none.  *)
LEMMA TotalsTail ==
    ASSUME NEW q \in Seq(Packet), NEW n \in Nat, Totals(q, n), q # <<>>
    PROVE  /\ Head(q).bytes <= n /\ n - Head(q).bytes \in Nat
           /\ Totals(Tail(q), n - Head(q).bytes)
<1>1. PICK f : Sums(q, f) /\ f[Len(q)] = n
  BY DEF Totals
<1> DEFINE r == Tail(q)
           b == q[1].bytes
           g == [i \in 0 .. Len(r) |-> f[i + 1] - b]
<1>2. /\ Head(q) = q[1] /\ Len(q) \in Nat /\ Len(q) > 0 /\ Len(r) = Len(q) - 1
      /\ \A i \in 1 .. Len(r) : r[i] = q[i + 1]
      /\ b \in Nat
  <2>1. /\ Head(q) = q[1] /\ Len(q) \in Nat /\ Len(q) > 0 /\ Len(r) = Len(q) - 1
        /\ \A i \in 1 .. Len(r) : r[i] = q[i + 1]
    OBVIOUS
  <2>2. q[1] \in Packet
    BY <2>1
  <2> QED BY <2>1, <2>2 DEF Packet
<1>3. /\ f \in [0 .. Len(q) -> Nat] /\ f[0] = 0
      /\ \A i \in 1 .. Len(q) : f[i] = f[i - 1] + q[i].bytes
      /\ \A i, j \in 0 .. Len(q) : i <= j => f[i] <= f[j]
  BY <1>1 DEF Sums
<1>4. f[1] = b
  <2>1. 1 \in 1 .. Len(q) /\ 1 - 1 = 0
    BY <1>2
  <2>2. f[1] = f[1 - 1] + q[1].bytes
    BY <2>1, <1>3
  <2>3. f[1 - 1] = 0
    BY <2>1, <1>3
  <2> HIDE DEF r, g
  <2> QED BY <2>2, <2>3, <1>2
<1> HIDE DEF r, b
<1>5. \A i \in 1 .. Len(q) : f[i] \in Nat /\ b <= f[i]
  <2> HIDE DEF g
  <2>1. \A i \in 1 .. Len(q) : i \in 0 .. Len(q) /\ 1 \in 0 .. Len(q) /\ 1 <= i
    BY <1>2
  <2> QED BY <2>1, <1>3, <1>4
<1>6. g \in [0 .. Len(r) -> Nat] /\ g[0] = 0 /\ g[Len(r)] = n - b
  <2>1. \A i \in 0 .. Len(r) : i + 1 \in 1 .. Len(q) /\ f[i + 1] - b \in Nat
    BY <1>2, <1>5
  <2>2. g \in [0 .. Len(r) -> Nat]
    BY <2>1
  <2>3. Len(r) \in 0 .. Len(r) /\ 0 \in 0 .. Len(r) /\ Len(r) + 1 = Len(q)
    BY <1>2
  <2> QED BY <1>1, <1>2, <1>4, <2>2, <2>3
<1>7. \A i \in 1 .. Len(r) : g[i] = g[i - 1] + r[i].bytes
  <2> TAKE i \in 1 .. Len(r)
  <2>1. i + 1 \in 1 .. Len(q) /\ i \in 1 .. Len(q) /\ i - 1 \in 0 .. Len(r) /\ i \in 0 .. Len(r) /\ i \in Int
    BY <1>2
  <2>2. g[i] = f[i + 1] - b /\ g[i - 1] = f[i] - b
    BY <2>1
  <2>3. f[i + 1] = f[i] + q[i + 1].bytes
    <3>1. (i + 1) - 1 = i
      BY <2>1
    <3> QED BY <2>1, <3>1, <1>3
  <2>4. r[i] = q[i + 1]
    BY <1>2
  <2>5. f[i] \in Int /\ f[i + 1] \in Int
    BY <2>1, <1>5
  <2>6. q[i + 1].bytes \in Nat
    <3>1. q[i + 1] \in Packet
      BY <2>1
    <3> QED BY <3>1 DEF Packet
  <2> HIDE DEF g
  <2> QED BY <2>2, <2>3, <2>4, <2>5, <2>6, <1>2
<1>8. \A i, j \in 0 .. Len(r) : i <= j => g[i] <= g[j]
  BY <1>2, <1>3, <1>5
<1> HIDE DEF g
<1>9. Sums(r, g)
  BY <1>6, <1>7, <1>8 DEF Sums
<1>10. Totals(r, n - b)
  BY <1>6, <1>9 DEF Totals
<1>11. b <= n /\ n - b \in Nat
  BY <1>1, <1>2, <1>5
<1> QED BY <1>2, <1>10, <1>11 DEF r, b

(* The greatest element of a finite set of numbers, the least of any.            *)
LEMMA GreatestOf ==
    ASSUME NEW S, \A y \in S : y \in Int, IsFiniteSet(S), S # {}
    PROVE  \E x \in S : \A y \in S : y <= x
<1> DEFINE Above(x) == {y \in S : y > x}
           Family == {Above(x) : x \in S}
<1>1. Family \subseteq FiniteSubsetsOf(S) /\ Family # {}
  <2>1. \A x \in S : Above(x) \in SUBSET S /\ IsFiniteSet(Above(x))
    BY FS_Subset
  <2> QED BY <2>1 DEF FiniteSubsetsOf
<1>2. IsWellFoundedOn(StrictSubsetOrdering(S), FiniteSubsetsOf(S))
  BY FS_StrictSubsetOrderingWellFounded
<1>3. PICK A \in Family : \A B \in Family : ~(<<B, A>> \in StrictSubsetOrdering(S))
  BY <1>1, <1>2, WFMin
<1>4. PICK x \in S : A = Above(x)
  OBVIOUS
<1>5. \A y \in S : ~(y > x)
  <2> SUFFICES ASSUME NEW y \in S, y > x PROVE FALSE
    OBVIOUS
  <2>1. Above(y) \subseteq Above(x)
    OBVIOUS
  <2>2. y \in Above(x) /\ y \notin Above(y)
    OBVIOUS
  <2>3. <<Above(y), A>> \in StrictSubsetOrdering(S)
    BY <1>4, <2>1, <2>2 DEF StrictSubsetOrdering
  <2> QED BY <1>3, <2>3
<1>6. \A y \in S : y <= x
  BY <1>5
<1> QED BY <1>6

(* Any set of numbers that is not empty has a least one.                        *)
LEMMA LeastOf ==
    ASSUME NEW S, \A y \in S : y \in Nat, S # {}
    PROVE  \E x \in S : \A y \in S : x <= y
<1>1. PICK n \in S : n \in Nat
  OBVIOUS
<1> DEFINE T == {z \in 0 .. n : n - z \in S}
<1>2. (\A z \in T : z \in Int) /\ T # {}
  <2>1. 0 \in 0 .. n /\ n - 0 = n
    BY <1>1
  <2>2. 0 \in T
    BY <2>1, <1>1
  <2> QED BY <2>2
<1>3. IsFiniteSet(T)
  <2>1. IsFiniteSet(0 .. n) /\ T \in SUBSET (0 .. n)
    BY <1>1, FS_Interval
  <2> HIDE DEF T
  <2> QED BY <2>1, FS_Subset
<1> HIDE DEF T
<1>4. PICK z \in T : \A y \in T : y <= z
  BY <1>2, <1>3, GreatestOf
<1>5. z \in 0 .. n /\ n - z \in S
  BY DEF T
<1>6. ASSUME NEW y \in S PROVE n - z <= y
  <2>1. CASE y > n
    BY <2>1, <1>1, <1>5
  <2>2. CASE y <= n
    <3>1. n - y \in 0 .. n /\ n - (n - y) = y
      BY <2>2, <1>1
    <3>2. n - y \in T
      BY <3>1 DEF T
    <3> QED BY <3>1, <3>2, <1>1, <1>4, <1>5
  <2> QED BY <2>1, <2>2, <1>1
<1> QED BY <1>5, <1>6

(* Bytes is what the prefix sums say. *)
LEMMA TotalsBytes ==
    ASSUME NEW q \in Seq(Packet), NEW n \in Nat, Totals(q, n)
    PROVE  Bytes(q) = n
<1>1. PICK f : Sums(q, f) /\ f[Len(q)] = n
  BY DEF Totals
<1> DEFINE D == 0 .. Len(q)
           Next0(h) == [k \in D |-> IF k = 0 THEN 0 ELSE h[k - 1] + q[k].bytes]
           g == CHOOSE h : h = Next0(h)
<1>2. f = Next0(f)
  BY <1>1 DEF Sums
<1>3. g = Next0(g)
  BY <1>2
<1>4. Bytes(q) = g[Len(q)]
  BY DEF Bytes
<1> HIDE DEF g
<1>5. \A k \in D : g[k] = IF k = 0 THEN 0 ELSE g[k - 1] + q[k].bytes
  BY <1>3
<1>6. \A k \in D : f[k] = IF k = 0 THEN 0 ELSE f[k - 1] + q[k].bytes
  BY <1>1 DEF Sums
<1>7. \A k \in D : g[k] = f[k]
  <2> SUFFICES ASSUME NEW k \in D, g[k] # f[k] PROVE FALSE
    OBVIOUS
  <2> DEFINE Wrong == {i \in D : g[i] # f[i]}
  <2>1. (\A i \in Wrong : i \in Nat) /\ Wrong # {}
    OBVIOUS
  <2>2. PICK x \in Wrong : \A y \in Wrong : x <= y
    BY <2>1, LeastOf
  <2>3. x \in D /\ x \in Nat /\ g[x] # f[x] /\ Len(q) \in Nat
    BY <2>2
  <2>4. x # 0
    BY <2>3, <1>5, <1>6
  <2>5. x - 1 \in D /\ ~(x <= x - 1)
    BY <2>3, <2>4
  <2>6. g[x - 1] = f[x - 1]
    BY <2>2, <2>5
  <2> QED BY <2>3, <2>4, <2>6, <1>5, <1>6
<1> QED BY <1>1, <1>4, <1>7

-------------------------------------------------------------------------------
(* What a medium holds.                                                         *)

(* The parts of a medium, as MediaAssumption has them.                          *)
LEMMA MediumTypes ==
    ASSUME NEW m \in Media
    PROVE  /\ m.packets \in Seq(Packet) /\ m.start \in Nat /\ m.audioStart \in Int
           /\ Len(m.packets) \in Nat
           /\ \A i \in 1 .. Len(m.packets) :
                 /\ m.packets[i] \in Packet
                 /\ m.packets[i].at \in Nat /\ m.packets[i].bytes \in Nat
                 /\ m.packets[i].stream \in Streams
           /\ \A s : Of(m, s) \subseteq 1 .. Len(m.packets)
<1>1. /\ m.packets \in Seq(Packet) /\ m.start \in Nat
      /\ m.audioStart \in Nat \cup {Undeclared}
  BY MediaAssumption
<1>2. Len(m.packets) \in Nat /\ DOMAIN m.packets = 1 .. Len(m.packets)
  BY <1>1
<1>3. \A i \in 1 .. Len(m.packets) : m.packets[i] \in Packet
  BY <1>1
<1>4. \A p \in Packet : p.at \in Nat /\ p.bytes \in Nat /\ p.stream \in Streams
  BY DEF Packet
<1>5. m.audioStart \in Int
  BY <1>1 DEF Undeclared
<1> QED BY <1>1, <1>2, <1>3, <1>4, <1>5 DEF Of

(* A medium has a last packet.                                                  *)
LEMMA PacketsFinite ==
    ASSUME NEW m \in Media
    PROVE  IsFiniteSet(1 .. Len(m.packets))
<1>1. Len(m.packets) \in Nat
  BY MediumTypes
<1> DEFINE n == Len(m.packets)
<1> HIDE DEF n
<1>2. n \in Int /\ 1 \in Int
  BY <1>1 DEF n
<1>3. IsFiniteSet(1 .. n)
  BY <1>2, FS_Interval
<1> QED BY <1>3 DEF n

(* SoundEnd is the least bound of everything that sounds. *)
LEMMA SoundEnds ==
    ASSUME NEW m \in Media
    PROVE  /\ SoundEnd(m) \in Nat /\ m.start <= SoundEnd(m)
           /\ \A i \in Of(m, "audio") : m.packets[i].at + 1 <= SoundEnd(m)
           /\ Of(m, "audio") # {} => m.audioStart <= SoundEnd(m)
           /\ \A n \in Nat :
                 /\ m.start <= n /\ \A i \in Of(m, "audio") : m.packets[i].at + 1 <= n
                 /\ Of(m, "audio") # {} => m.audioStart <= n
                 => SoundEnd(m) <= n
<1> DEFINE A == Of(m, "audio")
           T == {m.packets[i].at + 1 : i \in A}
           D == IF A = {} THEN {} ELSE {m.audioStart}
           S == {m.start} \cup T \cup D
<1>1. IsFiniteSet(A)
  <2> HIDE DEF A
  <2>1. A \in SUBSET (1 .. Len(m.packets))
    BY MediumTypes DEF A
  <2>2. IsFiniteSet(1 .. Len(m.packets))
    BY PacketsFinite
  <2> QED BY <2>1, <2>2, FS_Subset
<1>2. /\ m.start \in Nat /\ m.audioStart \in Int
      /\ \A i \in A : m.packets[i].at \in Nat
  BY MediumTypes
<1> HIDE DEF A
<1>3. IsFiniteSet(T)
  <2> DEFINE f == [i \in A |-> m.packets[i].at + 1]
  <2>1. f \in Surjection(A, T)
    BY DEF Surjection
  <2> HIDE DEF f, T
  <2> QED BY <1>1, <2>1, FS_Surjection
<1>4. IsFiniteSet(D) /\ IsFiniteSet({m.start})
  BY FS_EmptySet, FS_Singleton
<1>5. IsFiniteSet(S)
  <2> HIDE DEF T, D
  <2> QED BY <1>3, <1>4, FS_Union
<1>6. (\A y \in S : y \in Int) /\ S # {}
  BY <1>2
<1>7. SoundEnd(m) = Max(S)
  BY DEF SoundEnd, A
<1> HIDE DEF S
<1>8. PICK x \in S : \A y \in S : y <= x
  BY <1>5, <1>6, GreatestOf
<1>9. \A y \in S : x >= y
  BY <1>6, <1>8
<1>10. Max(S) \in S /\ \A y \in S : Max(S) >= y
  BY <1>9 DEF Max
<1>11. /\ SoundEnd(m) \in Int /\ m.start <= SoundEnd(m)
       /\ \A i \in A : m.packets[i].at + 1 <= SoundEnd(m)
       /\ A # {} => m.audioStart <= SoundEnd(m)
  BY <1>2, <1>6, <1>7, <1>10 DEF S
<1>12. ASSUME NEW n \in Nat, m.start <= n, \A i \in A : m.packets[i].at + 1 <= n,
              A # {} => m.audioStart <= n
       PROVE  SoundEnd(m) <= n
  BY <1>7, <1>10, <1>12 DEF S
<1> QED BY <1>2, <1>11, <1>12 DEF A

(* How many packets of a stream are among the first n. *)
LEMMA FirstCounted ==
    ASSUME NEW m \in Media, NEW s, NEW n \in 0 .. Len(m.packets)
    PROVE  /\ Cardinality(First(m, s, n)) \in Nat
           /\ Cardinality(First(m, s, n)) <= Cardinality(Of(m, s))
           /\ Cardinality(Of(m, s)) \in Nat
           /\ Cardinality(First(m, s, 0)) = 0
           /\ First(m, s, Len(m.packets)) = Of(m, s)
           /\ (Cardinality(Of(m, s)) = 0) <=> (Of(m, s) = {})
<1>1. /\ Len(m.packets) \in Nat /\ Of(m, s) \in SUBSET (1 .. Len(m.packets))
      /\ IsFiniteSet(1 .. Len(m.packets))
  BY MediumTypes, PacketsFinite
<1>2. IsFiniteSet(Of(m, s))
  BY <1>1, FS_Subset
<1>3. /\ First(m, s, n) \in SUBSET Of(m, s) /\ First(m, s, 0) = {}
      /\ First(m, s, Len(m.packets)) = Of(m, s)
  BY <1>1 DEF First
<1> QED BY <1>2, <1>3, FS_Subset, FS_EmptySet, FS_CardinalityType

(* One packet more is read: the count of its stream grows by one, the others    *)
(* stay.                                                                        *)
LEMMA FirstGrows ==
    ASSUME NEW m \in Media, NEW s, NEW n \in Nat, n < Len(m.packets)
    PROVE  Cardinality(First(m, s, n + 1)) =
              Cardinality(First(m, s, n)) + IF m.packets[n + 1].stream = s THEN 1 ELSE 0
<1>1. /\ Len(m.packets) \in Nat /\ Of(m, s) \in SUBSET (1 .. Len(m.packets))
      /\ IsFiniteSet(1 .. Len(m.packets))
  BY MediumTypes, PacketsFinite
<1>2. IsFiniteSet(First(m, s, n)) /\ Cardinality(First(m, s, n)) \in Nat
  <2>1. First(m, s, n) \in SUBSET (1 .. Len(m.packets))
    BY <1>1 DEF First
  <2> QED BY <1>1, <2>1, FS_Subset, FS_CardinalityType
<1>3. n + 1 \in 1 .. Len(m.packets) /\ n + 1 \notin First(m, s, n)
  BY <1>1 DEF First
<1>4. CASE m.packets[n + 1].stream = s
  <2>1. n + 1 \in Of(m, s)
    BY <1>3, <1>4, MediumTypes DEF Of
  <2>2. First(m, s, n + 1) = First(m, s, n) \cup {n + 1}
    BY <1>1, <2>1 DEF First
  <2> QED BY <1>2, <1>3, <1>4, <2>2, FS_AddElement
<1>5. CASE m.packets[n + 1].stream # s
  <2>1. n + 1 \notin Of(m, s)
    BY <1>5 DEF Of
  <2>2. First(m, s, n + 1) = First(m, s, n)
    BY <1>1, <2>1 DEF First
  <2> QED BY <1>2, <1>5, <2>2
<1> QED BY <1>4, <1>5

-------------------------------------------------------------------------------
(* What the steps do.                                                           *)

(* One worker changes, the others are as they were. *)
Becomes(s, at, codec, flushing, outcome) ==
    /\ worker' \in [Streams -> WorkerRecord]
    /\ worker'[s].at = at /\ worker'[s].codec = codec
    /\ worker'[s].flushing = flushing /\ worker'[s].outcome = outcome
    /\ \A t \in Streams \ {s} : worker'[t] = worker[t]

(* The parts of a worker.                                                       *)
LEMMA RecordTypes ==
    ASSUME Types, NEW s \in Streams
    PROVE  /\ worker[s] \in WorkerRecord
           /\ worker[s].at \in Places /\ worker[s].codec \in Seq(Nat)
           /\ worker[s].flushing \in BOOLEAN /\ worker[s].outcome \in WorkerOutcomes
           /\ Len(worker[s].codec) \in Nat
<1>1. worker[s] \in WorkerRecord
  BY DEF Types, WorkerTypes
<1>2. \A w \in WorkerRecord : /\ w.at \in Places /\ w.codec \in Seq(Nat)
                              /\ w.flushing \in BOOLEAN /\ w.outcome \in WorkerOutcomes
  BY DEF WorkerRecord
<1>3. \A q \in Seq(Nat) : Len(q) \in Nat
  OBVIOUS
<1> QED BY <1>1, <1>2, <1>3

(* A worker goes on elsewhere with what it has.                                 *)
LEMMA WorkerMoves ==
    ASSUME Types, NEW s \in Streams, NEW at \in Places
    PROVE  worker' = [worker EXCEPT ![s].at = at] =>
              Becomes(s, at, worker[s].codec, worker[s].flushing, worker[s].outcome)
<1>1. worker \in [Streams -> WorkerRecord] /\ worker[s] \in WorkerRecord
  BY DEF Types, WorkerTypes
<1> DEFINE w == [worker[s] EXCEPT !.at = at]
<1>2. /\ w \in WorkerRecord /\ w.at = at /\ w.codec = worker[s].codec
      /\ w.flushing = worker[s].flushing /\ w.outcome = worker[s].outcome
  BY <1>1 DEF WorkerRecord
<1>3. [worker EXCEPT ![s].at = at] = [worker EXCEPT ![s] = w]
  BY <1>1
<1> HIDE DEF w
<1> QED BY <1>1, <1>2, <1>3 DEF Becomes

(* A worker's codec changes, nothing else.                                      *)
LEMMA WorkerDecodes ==
    ASSUME Types, NEW s \in Streams, NEW codec \in Seq(Nat)
    PROVE  worker' = [worker EXCEPT ![s].codec = codec] =>
              Becomes(s, worker[s].at, codec, worker[s].flushing, worker[s].outcome)
<1>1. worker \in [Streams -> WorkerRecord] /\ worker[s] \in WorkerRecord
  BY DEF Types, WorkerTypes
<1> DEFINE w == [worker[s] EXCEPT !.codec = codec]
<1>2. /\ w \in WorkerRecord /\ w.codec = codec /\ w.at = worker[s].at
      /\ w.flushing = worker[s].flushing /\ w.outcome = worker[s].outcome
  BY <1>1 DEF WorkerRecord
<1>3. [worker EXCEPT ![s].codec = codec] = [worker EXCEPT ![s] = w]
  BY <1>1
<1> HIDE DEF w
<1> SUFFICES ASSUME worker' = [worker EXCEPT ![s] = w]
             PROVE  Becomes(s, worker[s].at, codec, worker[s].flushing, worker[s].outcome)
  BY <1>3
<1>4. /\ worker' \in [Streams -> WorkerRecord] /\ worker'[s] = w
      /\ \A t \in Streams \ {s} : worker'[t] = worker[t]
  BY <1>1, <1>2
<1> QED BY <1>2, <1>4, Zenon DEF Becomes

(* A worker takes a packet into its codec.                                      *)
LEMMA WorkerTakes ==
    ASSUME Types, NEW s \in Streams, NEW at \in Places, NEW codec \in Seq(Nat)
    PROVE  worker' = [worker EXCEPT ![s].at = at, ![s].codec = codec] =>
              Becomes(s, at, codec, worker[s].flushing, worker[s].outcome)
<1>1. worker \in [Streams -> WorkerRecord] /\ worker[s] \in WorkerRecord
  BY DEF Types, WorkerTypes
<1> DEFINE w == [worker[s] EXCEPT !.at = at, !.codec = codec]
<1>2. /\ w \in WorkerRecord /\ w.codec = codec /\ w.at = at
      /\ w.flushing = worker[s].flushing /\ w.outcome = worker[s].outcome
  BY <1>1 DEF WorkerRecord
<1>3. [worker EXCEPT ![s].at = at, ![s].codec = codec] = [worker EXCEPT ![s] = w]
  BY <1>1
<1> HIDE DEF w
<1> QED BY <1>1, <1>2, <1>3 DEF Becomes

(* A worker flushes its codec.                                                  *)
LEMMA WorkerFlushes ==
    ASSUME Types, NEW s \in Streams
    PROVE  worker' = [worker EXCEPT ![s].at = "decode", ![s].flushing = TRUE] =>
              Becomes(s, "decode", worker[s].codec, TRUE, worker[s].outcome)
<1>1. worker \in [Streams -> WorkerRecord] /\ worker[s] \in WorkerRecord
  BY DEF Types, WorkerTypes
<1> DEFINE w == [worker[s] EXCEPT !.at = "decode", !.flushing = TRUE]
<1>2. /\ w \in WorkerRecord /\ w.codec = worker[s].codec /\ w.at = "decode"
      /\ w.flushing = TRUE /\ w.outcome = worker[s].outcome
  BY <1>1 DEF WorkerRecord, Places
<1>3. [worker EXCEPT ![s].at = "decode", ![s].flushing = TRUE] = [worker EXCEPT ![s] = w]
  BY <1>1
<1> HIDE DEF w
<1> QED BY <1>1, <1>2, <1>3 DEF Becomes

(* A worker returns with an outcome.                                            *)
LEMMA WorkerReturns ==
    ASSUME Types, NEW s \in Streams, NEW outcome \in WorkerOutcomes
    PROVE  worker' = [worker EXCEPT ![s].at = "done", ![s].outcome = outcome] =>
              Becomes(s, "done", worker[s].codec, worker[s].flushing, outcome)
<1>1. worker \in [Streams -> WorkerRecord] /\ worker[s] \in WorkerRecord
  BY DEF Types, WorkerTypes
<1> DEFINE w == [worker[s] EXCEPT !.at = "done", !.outcome = outcome]
<1>2. /\ w \in WorkerRecord /\ w.codec = worker[s].codec /\ w.at = "done"
      /\ w.flushing = worker[s].flushing /\ w.outcome = outcome
  BY <1>1 DEF WorkerRecord, Places
<1>3. [worker EXCEPT ![s].at = "done", ![s].outcome = outcome] = [worker EXCEPT ![s] = w]
  BY <1>1
<1> HIDE DEF w
<1> QED BY <1>1, <1>2, <1>3 DEF Becomes

(* A worker that returns, for whatever reason. *)
Returning(s, o) ==
    /\ phase = "running" /\ worker[s].at \in {"prime", "pop", "decode"}
    /\ Becomes(s, "done", worker[s].codec, worker[s].flushing, o)
    /\ o \in WorkerOutcomes \ {"none"}
    /\ IF s # "subtitle" /\ o \in {"error", "stopped"}
       THEN stop' = TRUE /\ terminal' = Finished("cancelled")
       ELSE UNCHANGED <<stop, terminal>>
    /\ UNCHANGED <<router, output, subtitles, media, phase, demux, sinks, player, answer>>
    /\ \/ UNCHANGED notes
       \/ /\ s \in Playable /\ o = "error" /\ trouble' = trouble \cup {"fault"}
          /\ faults' = faults \/ (faults < MaxTroubles /\ faults' = faults + 1)
    /\ o = "error" => \/ "fault" \in trouble' \/ terminal = "failed"
                      \/ s = "video" /\ worker[s].flushing /\ worker[s].codec = <<>>
                         /\ given["video"] = 0
    /\ o = "stopped" => s \in Playable \ sinks
    /\ o = "cancelled" => stop
    /\ o = "ended" => \/ s = "subtitle"
                      \/ /\ worker[s].at = "decode" /\ worker[s].flushing
                         /\ worker[s].codec = <<>>
                         /\ s = "video" => given["video"] # 0

(* Every action in which a worker returns is Returning, with its reason.        *)
LEMMA Return ==
    ASSUME Types, NEW s \in Streams,
           \/ Cancelled(s) \/ DemuxFailed(s)
           \/ s \in Playable /\ (DecodeFails(s) \/ Drained(s) \/ SinkRefuses(s))
           \/ s = "audio" /\ OverlapFails
           \/ s = "subtitle" /\ SubtitlesEnd
    PROVE  \E o \in WorkerOutcomes : Returning(s, o)
<1>1. \A o \in WorkerOutcomes : Returns(s, o) =>
         /\ Becomes(s, "done", worker[s].codec, worker[s].flushing, o)
         /\ IF s # "subtitle" /\ o \in {"error", "stopped"}
            THEN stop' = TRUE /\ terminal' = Finished("cancelled")
            ELSE UNCHANGED <<stop, terminal>>
         /\ UNCHANGED <<router, output, subtitles, media, phase, demux, sinks, player, answer>>
  BY WorkerReturns DEF Returns, WorkerFrame
<1>2. worker[s].codec \in Seq(Nat) /\ worker[s].flushing \in BOOLEAN
  BY RecordTypes
<1>3. CASE Cancelled(s)
  <2>1. Returning(s, "cancelled")
    BY <1>1, <1>3 DEF Cancelled, Returning, WorkerOutcomes
  <2> QED BY <2>1 DEF WorkerOutcomes
<1>4. CASE DemuxFailed(s)
  <2>1. Returning(s, "error")
    BY <1>1, <1>4 DEF DemuxFailed, TerminalReached, At, Returning, WorkerOutcomes
  <2> QED BY <2>1 DEF WorkerOutcomes
<1>5. CASE s \in Playable /\ DecodeFails(s)
  <2>1. Returning(s, "error")
    BY <1>1, <1>5 DEF DecodeFails, Suffers, At, Returning, WorkerOutcomes
  <2> QED BY <2>1 DEF WorkerOutcomes
<1>6. CASE s \in Playable /\ Drained(s)
  <2>1. worker[s].flushing /\ worker[s].codec = <<>> /\ worker[s].at = "decode"
    BY <1>2, <1>6 DEF Drained, FrameReady, At
  <2>2. CASE s = "video" /\ given["video"] = 0
    <3>1. Returning(s, "error")
      BY <1>1, <1>6, <2>1, <2>2 DEF Drained, At, Returning, WorkerOutcomes
    <3> QED BY <3>1 DEF WorkerOutcomes
  <2>3. CASE ~(s = "video" /\ given["video"] = 0)
    <3>1. Returning(s, "ended")
      BY <1>1, <1>6, <2>1, <2>3 DEF Drained, At, Returning, WorkerOutcomes
    <3> QED BY <3>1 DEF WorkerOutcomes
  <2> QED BY <2>2, <2>3
<1>7. CASE s \in Playable /\ SinkRefuses(s)
  <2>1. Returning(s, "stopped")
    BY <1>1, <1>7 DEF SinkRefuses, At, Returning, WorkerOutcomes
  <2> QED BY <2>1 DEF WorkerOutcomes
<1>8. CASE s = "audio" /\ OverlapFails
  <2>1. Returning(s, "error")
    BY <1>1, <1>8 DEF OverlapFails, AudioReady, At, Returning, WorkerOutcomes, Playable
  <2> QED BY <2>1 DEF WorkerOutcomes
<1>9. CASE s = "subtitle" /\ SubtitlesEnd
  <2>1. Returning(s, "ended")
    BY <1>1, <1>9 DEF SubtitlesEnd, TerminalReached, At, Returning, WorkerOutcomes
  <2> QED BY <2>1 DEF WorkerOutcomes
<1> QED BY <1>3, <1>4, <1>5, <1>6, <1>7, <1>8, <1>9

(* A worker that goes on, with what its packets leave to say of the router.       *)
Working(s, at, codec, flushing) ==
    /\ phase = "running"
    /\ Becomes(s, at, codec, flushing, worker[s].outcome)
    /\ UNCHANGED <<terminal, stop, notes, media, phase, demux, sinks, player, answer>>

Taking(s) ==
    /\ worker[s].at = "pop" /\ queue[s] # <<>>
    /\ Working(s, "decode", Append(worker[s].codec, Head(queue[s]).at), worker[s].flushing)
    /\ queue' = [queue EXCEPT ![s] = Tail(@)]
    /\ queued' = [packets |-> queued.packets - 1, bytes |-> queued.bytes - Head(queue[s]).bytes]
    /\ UNCHANGED <<output, subtitles>>

Flushing(s) ==
    /\ worker[s].at = "pop" /\ queue[s] = <<>> /\ terminal = "endOfStream"
    /\ Working(s, "decode", worker[s].codec, TRUE)
    /\ UNCHANGED <<router, output, subtitles>>

Asking(s) ==
    /\ worker[s].at = "decode" /\ ~worker[s].flushing
    /\ Len(worker[s].codec) <= IF s = "video" THEN 1 ELSE 0
    /\ Working(s, "pop", worker[s].codec, worker[s].flushing)
    /\ UNCHANGED <<router, output, subtitles>>

Showing ==
    /\ worker["video"].at = "decode" /\ worker["video"].codec # <<>>
    /\ Working("video", "decode", Tail(worker["video"].codec), worker["video"].flushing)
    /\ frames' = Append(frames, Head(worker["video"].codec))
    /\ given' = [given EXCEPT !["video"] = @ + 1]
    /\ UNCHANGED <<router, blocks, due, subtitles>>

Priming ==
    /\ worker["audio"].at = "prime" /\ media.audioStart <= due
    /\ Working("audio", "pop", worker["audio"].codec, worker["audio"].flushing)
    /\ UNCHANGED <<router, output, subtitles>>

(* A block of silence leaves the codec as it is, a block of sound takes its head. *)
Sounding(codec) ==
    /\ \/ codec = worker["audio"].codec
          /\ \/ worker["audio"].at = "prime" /\ due < media.audioStart
             \/ worker["audio"].at = "decode" /\ codec # <<>> /\ due < Head(codec)
       \/ worker["audio"].at = "decode" /\ worker["audio"].codec # <<>>
          /\ due = Head(worker["audio"].codec) /\ codec = Tail(worker["audio"].codec)
    /\ Working("audio", worker["audio"].at, codec, worker["audio"].flushing)
    /\ blocks' = Append(blocks, due) /\ due' = due + 1
    /\ given' = [given EXCEPT !["audio"] = @ + 1]
    /\ UNCHANGED <<router, frames, subtitles>>

Trimming ==
    /\ worker["audio"].at = "decode" /\ worker["audio"].codec # <<>>
    /\ Head(worker["audio"].codec) < media.start
    /\ Working("audio", "decode", Tail(worker["audio"].codec), worker["audio"].flushing)
    /\ UNCHANGED <<router, output, subtitles>>

Subtitling ==
    /\ worker["subtitle"].at = "decode"
    /\ Working("subtitle", "pop", <<>>, worker["subtitle"].flushing)
    /\ subtitles' \in [events : 0 .. EventLimit, failed : BOOLEAN]
    /\ UNCHANGED <<router, output>>

Opening ==
    /\ phase = "opening" /\ ~stop /\ phase' = "running"
    /\ demux' = [demux EXCEPT !.on = TRUE]
    /\ worker' \in [Streams -> WorkerRecord]
    /\ worker'["video"].at = "pop"
    /\ worker'["audio"].at = IF HasAudio THEN "prime" ELSE "absent"
    /\ worker'["subtitle"].at \in {"pop", "absent"}
    /\ \A s \in Streams : /\ worker[s] = Idle
                          /\ worker'[s].codec = <<>> /\ ~worker'[s].flushing
                          /\ worker'[s].outcome = "none"
    /\ subtitles' \in [events : 0 .. EventLimit, failed : BOOLEAN]
    /\ UNCHANGED <<media, router, terminal, stop, sinks, output, player, notes, answer>>

(* The player takes what it was given. *)
Playing ==
    /\ frames' \in Seq(Nat) /\ blocks' \in Seq(Nat) /\ clock' \in Nat /\ running' \in BOOLEAN
    /\ UNCHANGED <<media, phase, pipe, stop, worker, sinks, given, due, paused, subtitles,
                   notes, answer>>

(* The types of what is neither a worker nor a queue.                           *)
LEMMA ScalarTypes ==
    ASSUME Types
    PROVE  /\ frames \in Seq(Nat) /\ blocks \in Seq(Nat) /\ due \in Nat /\ clock \in Nat
           /\ running \in BOOLEAN /\ stop \in BOOLEAN /\ media \in Media
           /\ media.start \in Nat /\ media.audioStart \in Int
           /\ given["video"] \in Nat /\ given["audio"] \in Nat
           /\ subtitles \in [events : 0 .. EventLimit, failed : BOOLEAN]
           /\ subtitles.events \in 0 .. EventLimit /\ subtitles.failed \in BOOLEAN
           /\ EventLimit \in Nat /\ MaxTroubles \in Nat
<1>1. media \in Media
  BY DEF Types, TypeOK
<1>2. media.start \in Nat /\ media.audioStart \in Int
  BY <1>1, MediumTypes
<1>3. EventLimit \in Nat /\ MaxTroubles \in Nat
  BY BudgetAssumption
<1> QED BY <1>1, <1>2, <1>3 DEF Types, TypeOK, Playable

(* The queues hold packets.                                                     *)
LEMMA QueueTypes ==
    ASSUME Types, NEW s \in Streams
    PROVE  /\ queue \in [Streams -> Seq(Packet)] /\ queue[s] \in Seq(Packet)
           /\ queue[s] # <<>> => /\ Head(queue[s]) \in Packet
                                 /\ Head(queue[s]).at \in Nat /\ Head(queue[s]).bytes \in Nat
           /\ \A i \in DOMAIN queue[s] : /\ queue[s][i] \in Packet
                                         /\ queue[s][i].at \in Nat /\ queue[s][i].bytes \in Nat
<1>1. queue \in [Streams -> Seq(Packet)]
  BY DEF Types, TypeOK
<1>2. \A q \in Seq(Packet) : /\ q # <<>> => Head(q) \in Packet
                             /\ \A i \in DOMAIN q : q[i] \in Packet
  OBVIOUS
<1>3. \A p \in Packet : p.at \in Nat /\ p.bytes \in Nat
  BY DEF Packet
<1> QED BY <1>1, <1>2, <1>3

(* TakesPacket is Taking.                                                       *)
LEMMA Take ==
    ASSUME Types, NEW s \in Streams, TakesPacket(s)
    PROVE  Taking(s)
<1>1. Append(worker[s].codec, Head(queue[s]).at) \in Seq(Nat) /\ "decode" \in Places
  BY RecordTypes, QueueTypes DEF TakesPacket, Takes, Places
<1>2. Becomes(s, "decode", Append(worker[s].codec, Head(queue[s]).at),
              worker[s].flushing, worker[s].outcome)
  BY <1>1, WorkerTakes DEF TakesPacket, Takes
<1> QED BY <1>2 DEF TakesPacket, Takes, At, Taking, Working, WorkerFrame

(* StartsFlush is Flushing.                                                     *)
LEMMA Flush ==
    ASSUME Types, NEW s \in Streams, StartsFlush(s)
    PROVE  Flushing(s)
<1>1. Becomes(s, "decode", worker[s].codec, TRUE, worker[s].outcome)
  BY WorkerFlushes DEF StartsFlush
<1> QED BY <1>1 DEF StartsFlush, TerminalReached, At, Flushing, Working, WorkerFrame

(* NeedsInput is Asking: it leaves at most the frame kept back for reordering.  *)
LEMMA Ask ==
    ASSUME Types, NEW s \in Streams, NeedsInput(s)
    PROVE  Asking(s)
<1>1. Becomes(s, "pop", worker[s].codec, worker[s].flushing, worker[s].outcome)
  BY WorkerMoves DEF NeedsInput, Places
<1>2. Len(worker[s].codec) <= IF s = "video" THEN 1 ELSE 0
  BY RecordTypes DEF NeedsInput, FrameReady
<1> QED BY <1>1, <1>2 DEF NeedsInput, At, Asking, Working, WorkerFrame

(* DeliversFrame is Showing.                                                    *)
LEMMA Show ==
    ASSUME Types, DeliversFrame
    PROVE  Showing
<1>1. worker["video"].codec \in Seq(Nat) /\ worker["video"].codec # <<>>
  BY RecordTypes DEF DeliversFrame, FrameReady, Streams
<1>2. Tail(worker["video"].codec) \in Seq(Nat)
  BY <1>1
<1>3. Becomes("video", worker["video"].at, Tail(worker["video"].codec),
              worker["video"].flushing, worker["video"].outcome)
  BY <1>2, WorkerDecodes DEF DeliversFrame, Streams
<1> QED BY <1>1, <1>3 DEF DeliversFrame, At, Showing, Working, WorkerFrame

(* Primed is Priming: the declared start of the audio was reached.              *)
LEMMA Prime ==
    ASSUME Types, Primed
    PROVE  Priming
<1>1. Becomes("audio", "pop", worker["audio"].codec, worker["audio"].flushing,
              worker["audio"].outcome)
  BY WorkerMoves DEF Primed, Places, Streams
<1>2. media.audioStart <= due
  BY ScalarTypes DEF Primed
<1> QED BY <1>1, <1>2 DEF Primed, At, Priming, Working, WorkerFrame

(* A worker becomes what it is when the workers stay.                           *)
LEMMA SameWorkers ==
    ASSUME Types, UNCHANGED worker, NEW s \in Streams
    PROVE  Becomes(s, worker[s].at, worker[s].codec, worker[s].flushing, worker[s].outcome)
BY DEF Types, WorkerTypes, Becomes

(* Every action that submits a block is Sounding.                               *)
LEMMA Sound ==
    ASSUME Types, Primes \/ FillsGap \/ DeliversBlock
    PROVE  \E codec \in Seq(Nat) : Sounding(codec)
<1>1. worker["audio"].codec \in Seq(Nat)
  BY RecordTypes DEF Streams
<1>2. CASE Primes \/ FillsGap
  <2>1. Becomes("audio", worker["audio"].at, worker["audio"].codec, worker["audio"].flushing,
                worker["audio"].outcome)
    BY <1>2, SameWorkers DEF Primes, FillsGap, Streams
  <2>2. Sounding(worker["audio"].codec)
    BY <1>2, <2>1 DEF Primes, FillsGap, AudioReady, NextBlock, At, SubmitsBlock, Sounding,
                      Working, WorkerFrame
  <2> QED BY <1>1, <2>2
<1>3. CASE DeliversBlock
  <2>1. worker["audio"].codec # <<>>
    BY <1>3 DEF DeliversBlock, AudioReady
  <2>2. Tail(worker["audio"].codec) \in Seq(Nat)
    BY <1>1, <2>1
  <2>3. Becomes("audio", worker["audio"].at, Tail(worker["audio"].codec),
                worker["audio"].flushing, worker["audio"].outcome)
    BY <1>3, <2>2, WorkerDecodes DEF DeliversBlock, Streams
  <2>4. Sounding(Tail(worker["audio"].codec))
    BY <1>3, <2>1, <2>3 DEF DeliversBlock, AudioReady, NextBlock, At, SubmitsBlock, Sounding,
                            Working, WorkerFrame
  <2> QED BY <2>2, <2>4
<1> QED BY <1>2, <1>3

(* TrimsBlock is Trimming.                                                      *)
LEMMA Trim ==
    ASSUME Types, TrimsBlock
    PROVE  Trimming
<1>1. worker["audio"].codec \in Seq(Nat) /\ worker["audio"].codec # <<>>
  BY RecordTypes DEF TrimsBlock, AudioReady, Streams
<1>2. Tail(worker["audio"].codec) \in Seq(Nat)
  BY <1>1
<1>3. Becomes("audio", worker["audio"].at, Tail(worker["audio"].codec),
              worker["audio"].flushing, worker["audio"].outcome)
  BY <1>2, WorkerDecodes DEF TrimsBlock, Streams
<1> QED BY <1>1, <1>3 DEF TrimsBlock, AudioReady, NextBlock, At, Trimming, Working, WorkerFrame

(* Every action that ends with a packet of the subtitles is Subtitling.         *)
LEMMA SubtitleGoesOn ==
    ASSUME Types, PublishesSubtitle \/ SubtitleDecodeFails \/ DrainsSubtitle
    PROVE  Subtitling
<1>1. PICK e, f : SubtitlePublished(e, f) /\ e \in 0 .. EventLimit /\ f \in BOOLEAN
  <2>1. /\ subtitles.events \in 0 .. EventLimit /\ subtitles.failed \in BOOLEAN
        /\ EventLimit \in Nat
    BY ScalarTypes
  <2>2. CASE PublishesSubtitle
    <3> DEFINE full == subtitles.events = EventLimit
               e == subtitles.events + (IF full THEN 0 ELSE 1)
    <3>1. e \in 0 .. EventLimit /\ full \in BOOLEAN
      BY <2>1
    <3>2. SubtitlePublished(e, full)
      BY <2>2 DEF PublishesSubtitle
    <3> QED BY <3>1, <3>2
  <2>3. CASE SubtitleDecodeFails \/ DrainsSubtitle
    BY <2>1, <2>3 DEF SubtitleDecodeFails, DrainsSubtitle
  <2> QED BY <2>2, <2>3
<1>2. Becomes("subtitle", "pop", <<>>, worker["subtitle"].flushing, worker["subtitle"].outcome)
  <2>1. "pop" \in Places /\ <<>> \in Seq(Nat) /\ "subtitle" \in Streams
    BY DEF Places, Streams
  <2>2. worker' = [worker EXCEPT !["subtitle"].at = "pop", !["subtitle"].codec = <<>>]
    BY <1>1 DEF SubtitlePublished
  <2> QED BY <2>1, <2>2, WorkerTakes
<1> QED BY <1>1, <1>2 DEF SubtitlePublished, At, Subtitling, Working, WorkerFrame

(* Opens is Opening: every worker starts with an empty codec.                   *)
LEMMA Open ==
    ASSUME Types, Stages, Opens
    PROVE  Opening
<1>1. worker = [s \in Streams |-> Idle]
  BY DEF Stages, Opens
<1>2. PICK shown \in BOOLEAN :
         /\ worker' = [worker EXCEPT
                 !["video"].at = "pop",
                 !["audio"].at = IF HasAudio THEN "prime" ELSE "absent",
                 !["subtitle"].at = IF shown THEN "pop" ELSE "absent"]
         /\ subtitles' = [subtitles EXCEPT !.failed = media.subtitled /\ ~shown]
  BY DEF Opens
<1>3. /\ worker["video"] = Idle /\ worker["audio"] = Idle /\ worker["subtitle"] = Idle
      /\ \A s \in Streams : worker[s] = Idle
      /\ DOMAIN worker = {"video", "audio", "subtitle"}
  BY <1>1 DEF Streams
<1>4. \A at \in Places : /\ [Idle EXCEPT !.at = at] \in WorkerRecord
                         /\ [Idle EXCEPT !.at = at].at = at
                         /\ [Idle EXCEPT !.at = at].codec = <<>>
                         /\ ~[Idle EXCEPT !.at = at].flushing
                         /\ [Idle EXCEPT !.at = at].outcome = "none"
  <2>1. <<>> \in Seq(Nat) /\ "none" \in WorkerOutcomes /\ "absent" \in Places
    BY DEF WorkerOutcomes, Places
  <2>2. /\ Idle \in WorkerRecord
        /\ Idle.codec = <<>> /\ ~Idle.flushing /\ Idle.outcome = "none"
    BY <2>1 DEF Idle, WorkerRecord
  <2> QED BY <2>2 DEF WorkerRecord
<1>5. /\ DOMAIN worker' = {"video", "audio", "subtitle"}
      /\ worker'["video"] = [Idle EXCEPT !.at = "pop"]
      /\ worker'["audio"] = [Idle EXCEPT !.at = IF HasAudio THEN "prime" ELSE "absent"]
      /\ worker'["subtitle"] = [Idle EXCEPT !.at = IF shown THEN "pop" ELSE "absent"]
      /\ worker' = [s \in {"video", "audio", "subtitle"} |-> worker'[s]]
  BY <1>2, <1>3
<1>6. /\ worker' \in [Streams -> WorkerRecord]
      /\ worker'["video"].at = "pop"
      /\ worker'["audio"].at = IF HasAudio THEN "prime" ELSE "absent"
      /\ worker'["subtitle"].at \in {"pop", "absent"}
      /\ \A s \in Streams : /\ worker'[s].codec = <<>> /\ ~worker'[s].flushing
                            /\ worker'[s].outcome = "none"
  <2> DEFINE a == IF HasAudio THEN "prime" ELSE "absent"
             b == IF shown THEN "pop" ELSE "absent"
  <2>1. a \in Places /\ b \in Places /\ "pop" \in Places /\ b \in {"pop", "absent"}
    BY DEF Places
  <2>2. /\ worker'["video"] = [Idle EXCEPT !.at = "pop"]
        /\ worker'["audio"] = [Idle EXCEPT !.at = a]
        /\ worker'["subtitle"] = [Idle EXCEPT !.at = b]
    BY <1>5
  <2> HIDE DEF a, b
  <2>3. /\ worker'["video"].at = "pop" /\ worker'["audio"].at = a /\ worker'["subtitle"].at = b
        /\ \A s \in Streams : /\ worker'[s] \in WorkerRecord
                              /\ worker'[s].codec = <<>> /\ ~worker'[s].flushing
                              /\ worker'[s].outcome = "none"
    <3>1. /\ worker'["video"] \in WorkerRecord /\ worker'["video"].at = "pop"
          /\ worker'["video"].codec = <<>> /\ ~worker'["video"].flushing
          /\ worker'["video"].outcome = "none"
      BY <1>4, <2>1, <2>2
    <3>2. /\ worker'["audio"] \in WorkerRecord /\ worker'["audio"].at = a
          /\ worker'["audio"].codec = <<>> /\ ~worker'["audio"].flushing
          /\ worker'["audio"].outcome = "none"
      BY <1>4, <2>1, <2>2
    <3>3. /\ worker'["subtitle"] \in WorkerRecord /\ worker'["subtitle"].at = b
          /\ worker'["subtitle"].codec = <<>> /\ ~worker'["subtitle"].flushing
          /\ worker'["subtitle"].outcome = "none"
      BY <1>4, <2>1, <2>2
    <3> QED BY <3>1, <3>2, <3>3 DEF Streams
  <2>4. worker' \in [Streams -> WorkerRecord]
    BY <1>5, <2>3 DEF Streams
  <2> QED BY <2>1, <2>3, <2>4 DEF a
<1>7. subtitles' \in [events : 0 .. EventLimit, failed : BOOLEAN]
  <2>1. (media.subtitled /\ ~shown) \in BOOLEAN
    OBVIOUS
  <2> QED BY <1>2, <2>1, ScalarTypes
<1> QED BY <1>3, <1>6, <1>7 DEF Opens, Opening

(* The player, and a step that changes nothing, are Playing.                    *)
LEMMA Play ==
    ASSUME Types, Player \/ UNCHANGED vars
    PROVE  Playing
<1>1. CASE Prerolled
  BY <1>1, ScalarTypes DEF Prerolled, Playing, output, player
<1>2. CASE ShowFrame
  <2>1. Tail(frames) \in Seq(Nat)
    BY <1>2, ScalarTypes DEF ShowFrame
  <2> QED BY <1>2, <2>1, ScalarTypes DEF ShowFrame, Playing, player
<1>3. CASE HearBlock
  <2>1. blocks \in Seq(Nat) /\ blocks # <<>>
    BY <1>3, ScalarTypes DEF HearBlock
  <2>2. Tail(blocks) \in Seq(Nat) /\ Head(blocks) \in Nat
    BY <2>1
  <2>3. blocks' \in Seq(Nat) /\ clock' \in Nat
    BY <1>3, <2>2 DEF HearBlock
  <2> QED BY <1>3, <2>3, ScalarTypes DEF HearBlock, Playing
<1>4. CASE TailRuns
  BY <1>4, ScalarTypes DEF TailRuns, Playing, output
<1>5. CASE UNCHANGED vars
  BY <1>5, ScalarTypes DEF vars, Playing, output, player
<1> QED BY <1>1, <1>2, <1>3, <1>4, <1>5 DEF Player

(* Every step is one of these. *)
LEMMA EveryStep ==
    ASSUME Types, Stages, [Next]_vars
    PROVE  \/ Playing \/ Stop \/ \E s \in Playable : CloseSink(s)
           \/ OpenCancelled \/ OpenFails \/ Opening \/ Join
           \/ ReadPacket \/ ReadEnds \/ ReadFails \/ ReadStops \/ PushPacket \/ PushRefused
           \/ \E s \in Streams, o \in WorkerOutcomes : Returning(s, o)
           \/ \E s \in Streams : Taking(s)
           \/ \E s \in Playable : Flushing(s) \/ Asking(s)
           \/ Showing \/ Priming \/ Trimming \/ Subtitling
           \/ \E codec \in Seq(Nat) : Sounding(codec)
<1>1. {"video", "audio", "subtitle"} = Streams /\ {"video", "audio"} = Playable
  BY DEF Streams, Playable
<1>2. CASE Video
  BY <1>1, <1>2, Return, Take, Flush, Ask, Show DEF Video
<1>3. CASE Audio
  BY <1>1, <1>3, Return, Take, Flush, Ask, Prime, Sound, Trim DEF Audio
<1>4. CASE Subtitle
  BY <1>1, <1>4, Return, Take, SubtitleGoesOn DEF Subtitle
<1>5. CASE Player \/ UNCHANGED vars
  BY <1>5, Play
<1>6. CASE Opens
  BY <1>6, Open
<1> QED BY <1>2, <1>3, <1>4, <1>5, <1>6 DEF Next, Demux

-------------------------------------------------------------------------------
(* Types is kept.                                                               *)

(* What TypeOK says of everything but the workers. *)
Values ==
    /\ media \in Media /\ phase \in {"opening", "running", "ended"}
    /\ demux \in [on : BOOLEAN, read : 0 .. Len(media.packets), held : Packet \cup {NoPacket}]
    /\ queue \in [Streams -> Seq(Packet)] /\ terminal \in Terminals
    /\ stop \in BOOLEAN /\ running \in BOOLEAN /\ paused \in BOOLEAN
    /\ sinks \subseteq Playable
    /\ given \in [Playable -> Nat] /\ due \in Nat /\ clock \in Nat
    /\ subtitles \in [events : 0 .. EventLimit, failed : BOOLEAN]
    /\ trouble \subseteq {"fault", "told", "closed"} /\ faults \in 0 .. MaxTroubles
    /\ answer \in {"none", "success", "error", "stopped", "cancelled"}
    /\ frames \in Seq(Nat) /\ blocks \in Seq(Nat)

(* Types is what it says of the workers and of everything else.                 *)
LEMMA TypesAre == Types <=> WorkerTypes /\ Values
<1>1. ASSUME WorkerTypes, NEW s \in Streams
      PROVE  /\ worker[s].at \in Places /\ worker[s].outcome \in WorkerOutcomes
             /\ Len(worker[s].codec) <= 2
  BY <1>1 DEF WorkerTypes, WorkerRecord, CodecOf
<1>2. Types => Values
  BY DEF Types, TypeOK, Values
<1>3. ASSUME WorkerTypes, Values PROVE TypeOK
  BY <1>1, <1>3 DEF TypeOK, Values
<1>4. ASSUME WorkerTypes, Values PROVE Types
  BY <1>3, <1>4 DEF Types, Values
<1> QED BY <1>2, <1>4 DEF Types

(* A worker that keeps the bounds of its codec leaves the workers' types as     *)
(* they are.                                                                    *)
LEMMA WorkersKept ==
    ASSUME Types, NEW s \in Streams, NEW at, NEW codec, NEW flushing, NEW outcome,
           Becomes(s, at, codec, flushing, outcome),
           /\ at \in {"absent", "prime"} => codec = <<>>
           /\ at = "pop" => Len(codec) <= IF s = "video" THEN 1 ELSE 0
           /\ flushing => at \in {"decode", "done"} /\ s # "subtitle"
           /\ Len(codec) <= 2
    PROVE  WorkerTypes'
<1>1. /\ worker' \in [Streams -> WorkerRecord]
      /\ \A t \in Streams \ {s} : worker'[t] = worker[t]
  BY DEF Becomes
<1>2. \A t \in Streams \ {s} : CodecOf(t)'
  BY <1>1 DEF Types, WorkerTypes, CodecOf
<1>3. CodecOf(s)'
  BY DEF Becomes, CodecOf
<1> QED BY <1>1, <1>2, <1>3 DEF WorkerTypes

(* Whatever the step, the codecs are never fuller than a worker lets them be.   *)
LEMMA WorkerTypesStep ==
    ASSUME Types, Stages, [Next]_vars
    PROVE  WorkerTypes'
<1>1. \A s \in Streams : /\ worker[s] \in WorkerRecord /\ CodecOf(s)
                         /\ worker[s].codec \in Seq(Nat) /\ Len(worker[s].codec) \in Nat
  BY RecordTypes DEF Types, WorkerTypes
<1>2. UNCHANGED worker => WorkerTypes'
  BY DEF Types, WorkerTypes, CodecOf
<1>3. Opening => WorkerTypes'
  BY DEF Opening, WorkerTypes, CodecOf, Streams
<1>4. ASSUME NEW s \in Streams, NEW o \in WorkerOutcomes, Returning(s, o) PROVE WorkerTypes'
  BY <1>1, <1>4, WorkersKept DEF Returning, CodecOf
<1>5. ASSUME NEW s \in Streams, Taking(s) PROVE WorkerTypes'
  <2> DEFINE codec == Append(worker[s].codec, Head(queue[s]).at)
  <2>1. Len(worker[s].codec) <= 1
    BY <1>1, <1>5 DEF Taking, CodecOf
  <2>2. Len(codec) = Len(worker[s].codec) + 1
    BY <1>1
  <2>3. Len(codec) <= 2
    BY <1>1, <2>1, <2>2
  <2> HIDE DEF codec
  <2>4. Becomes(s, "decode", codec, worker[s].flushing, worker[s].outcome)
    BY <1>5 DEF Taking, Working, codec
  <2>5. ~worker[s].flushing
    BY <1>1, <1>5 DEF Taking, CodecOf
  <2> QED BY <2>3, <2>4, <2>5, WorkersKept
<1>6. ASSUME NEW s \in Streams, s # "subtitle", Flushing(s) PROVE WorkerTypes'
  <2>1. Becomes(s, "decode", worker[s].codec, TRUE, worker[s].outcome)
    BY <1>6 DEF Flushing, Working
  <2> QED BY <1>1, <1>6, <2>1, WorkersKept DEF CodecOf
<1>7. ASSUME NEW s \in Streams, Asking(s) PROVE WorkerTypes'
  <2>1. Becomes(s, "pop", worker[s].codec, worker[s].flushing, worker[s].outcome)
    BY <1>7 DEF Asking, Working
  <2> QED BY <1>1, <1>7, <2>1, WorkersKept DEF CodecOf, Asking
<1>8. \A q \in Seq(Nat) : q # <<>> => Len(Tail(q)) = Len(q) - 1
  OBVIOUS
<1>9. ASSUME Showing PROVE WorkerTypes'
  <2> DEFINE codec == Tail(worker["video"].codec)
  <2>1. Len(codec) <= 2
    BY <1>1, <1>8, <1>9 DEF Showing, CodecOf, Streams
  <2>2. Becomes("video", "decode", codec, worker["video"].flushing, worker["video"].outcome)
    BY <1>9 DEF Showing, Working
  <2> HIDE DEF codec
  <2> QED BY <2>1, <2>2, WorkersKept DEF Streams
<1>10. ASSUME Priming PROVE WorkerTypes'
  <2>1. /\ Becomes("audio", "pop", worker["audio"].codec, worker["audio"].flushing,
                   worker["audio"].outcome)
        /\ worker["audio"].codec = <<>> /\ ~worker["audio"].flushing
    BY <1>1, <1>10 DEF Priming, Working, CodecOf, Streams
  <2>2. Len(worker["audio"].codec) = 0
    BY <2>1
  <2> QED BY <2>1, <2>2, WorkersKept DEF Streams
<1>11. ASSUME Trimming PROVE WorkerTypes'
  <2> DEFINE codec == Tail(worker["audio"].codec)
  <2>1. Len(codec) <= 2
    BY <1>1, <1>8, <1>11 DEF Trimming, CodecOf, Streams
  <2>2. Becomes("audio", "decode", codec, worker["audio"].flushing, worker["audio"].outcome)
    BY <1>11 DEF Trimming, Working
  <2> HIDE DEF codec
  <2> QED BY <2>1, <2>2, WorkersKept DEF Streams
<1>12. ASSUME Subtitling PROVE WorkerTypes'
  <2> DEFINE codec == <<>>
  <2>1. Len(codec) = 0 /\ codec = <<>> /\ worker["subtitle"].at = "decode"
    BY <1>12 DEF Subtitling
  <2>2. Becomes("subtitle", "pop", codec, worker["subtitle"].flushing, worker["subtitle"].outcome)
    BY <1>12 DEF Subtitling, Working
  <2> HIDE DEF codec
  <2>3. ~worker["subtitle"].flushing
    BY <1>1 DEF CodecOf, Streams
  <2> QED BY <2>1, <2>2, <2>3, WorkersKept DEF Streams
<1>13. ASSUME NEW codec \in Seq(Nat), Sounding(codec) PROVE WorkerTypes'
  <2>1. /\ Len(codec) <= 2
        /\ worker["audio"].at \in {"prime", "decode"}
        /\ worker["audio"].at = "prime" => codec = <<>>
    BY <1>1, <1>8, <1>13 DEF Sounding, CodecOf, Streams
  <2>2. Becomes("audio", worker["audio"].at, codec, worker["audio"].flushing,
                worker["audio"].outcome)
    BY <1>13 DEF Sounding, Working
  <2>3. worker["audio"].flushing => worker["audio"].at \in {"decode", "done"}
    BY <1>1 DEF CodecOf, Streams
  <2> QED BY <2>1, <2>2, <2>3, WorkersKept DEF Streams
<1>14. Playing \/ Stop \/ (\E s \in Playable : CloseSink(s)) \/ OpenCancelled \/ OpenFails
          \/ Join \/ ReadPacket \/ ReadEnds \/ ReadFails \/ ReadStops \/ PushPacket \/ PushRefused
          => UNCHANGED worker
  BY DEF Playing, Stop, CloseSink, OpenCancelled, OpenFails, Join, Ended, ReadPacket, ReadEnds,
         ReadFails, ReadStops, PushPacket, PushRefused, DemuxFrame
<1> QED
  <2>1. \A s \in Playable : s \in Streams /\ s # "subtitle"
    BY DEF Playable, Streams
  <2> QED BY <1>2, <1>3, <1>4, <1>5, <1>6, <1>7, <1>9, <1>10, <1>11, <1>12, <1>13, <1>14, <2>1,
             EveryStep

(* Whatever the step, everything but the workers keeps its type.                *)
LEMMA ValuesStep ==
    ASSUME Types, Stages, Values, [Next]_vars
    PROVE  Values'
<1>1. ASSUME Playing PROVE Values'
  BY <1>1 DEF Playing, Values, pipe, router, output, player, notes
<1>2. ASSUME Stop PROVE Values'
  BY <1>2, ScalarTypes DEF Stop, Suffers, Ended, Values, pipe, router, output, player, notes
<1>3. ASSUME NEW s \in Playable, CloseSink(s) PROVE Values'
  <2>1. frames' \in Seq(Nat) /\ blocks' \in Seq(Nat)
    BY <1>3 DEF CloseSink, Values
  <2>2. trouble' \subseteq {"fault", "told", "closed"} /\ faults' \in 0 .. MaxTroubles
    BY <1>3, ScalarTypes DEF CloseSink, Suffers, Values
  <2> QED BY <1>3, <2>1, <2>2 DEF CloseSink, Values, pipe, router, player
<1>4. ASSUME OpenCancelled PROVE Values'
  BY <1>4, ScalarTypes DEF OpenCancelled, Suffers, Ended, Values, pipe, router, output, player,
         notes
<1>5. ASSUME OpenFails PROVE Values'
  BY <1>5, ScalarTypes DEF OpenFails, Suffers, Ended, Values, pipe, router, output, player, notes
<1>6. ASSUME Opening PROVE Values'
  <2>1. demux' \in [on : BOOLEAN, read : 0 .. Len(media.packets), held : Packet \cup {NoPacket}]
    BY <1>6 DEF Opening, Values
  <2> QED BY <1>6, <2>1 DEF Opening, Values, router, output, player, notes
<1>7. ASSUME Join PROVE Values'
  <2>1. Classified \in {"success", "error", "stopped", "cancelled"}
    BY DEF Classified
  <2> QED BY <1>7, <2>1 DEF Join, Ended, Values, pipe, router, output, player, notes
<1>8. ASSUME ReadPacket PROVE Values'
  <2>0. /\ demux.read \in 0 .. Len(media.packets) /\ demux.read < Len(media.packets)
        /\ Len(media.packets) \in Nat
    BY <1>8, ScalarTypes, MediumTypes DEF ReadPacket, Values
  <2>1. /\ demux.read + 1 \in 1 .. Len(media.packets)
        /\ demux.read + 1 \in 0 .. Len(media.packets)
    BY <2>0
  <2>2. media.packets[demux.read + 1] \in Packet
    BY <2>1, ScalarTypes, MediumTypes
  <2>3. Destined(media.packets[demux.read + 1]) \in Packet \cup {NoPacket}
    BY <2>2 DEF Destined
  <2>4. demux' \in [on : BOOLEAN, read : 0 .. Len(media.packets), held : Packet \cup {NoPacket}]
    BY <1>8, <2>1, <2>3 DEF ReadPacket, Values
  <2> QED BY <1>8, <2>4 DEF ReadPacket, DemuxFrame, Values, router, output, player, notes
<1>9. ASSUME ReadEnds PROVE Values'
  <2>1. \A t \in Terminals : Finished(t) \in Terminals
    BY DEF Values, Finished
  <2>2. terminal' \in Terminals
    BY <1>9, <2>1 DEF ReadEnds, Values, Terminals
  <2>3. demux' \in [on : BOOLEAN, read : 0 .. Len(media.packets), held : Packet \cup {NoPacket}]
    BY <1>9 DEF ReadEnds, Values
  <2> QED BY <1>9, <2>2, <2>3, ScalarTypes DEF ReadEnds, DemuxFrame, Values, router, output,
         player, notes, Suffers
<1>10. ASSUME ReadFails PROVE Values'
  <2>1. \A t \in Terminals : Finished(t) \in Terminals
    BY DEF Values, Finished
  <2>2. terminal' \in Terminals
    BY <1>10, <2>1 DEF ReadFails, Values, Terminals
  <2>3. demux' \in [on : BOOLEAN, read : 0 .. Len(media.packets), held : Packet \cup {NoPacket}]
    BY <1>10 DEF ReadFails, Values
  <2>4. trouble' \subseteq {"fault", "told", "closed"} /\ faults' \in 0 .. MaxTroubles
    BY <1>10, ScalarTypes DEF ReadFails, Suffers, Values
  <2> QED BY <1>10, <2>2, <2>3, <2>4 DEF ReadFails, DemuxFrame, Values, router, output, player,
         notes
<1>11. ASSUME ReadStops PROVE Values'
  <2>1. \A t \in Terminals : Finished(t) \in Terminals
    BY DEF Values, Finished
  <2>2. terminal' \in Terminals
    BY <1>11, <2>1 DEF ReadStops, Values, Terminals
  <2>3. demux' \in [on : BOOLEAN, read : 0 .. Len(media.packets), held : Packet \cup {NoPacket}]
    BY <1>11 DEF ReadStops, Values
  <2> QED BY <1>11, <2>2, <2>3, ScalarTypes DEF ReadStops, DemuxFrame, Values, router, output,
         player, notes, Suffers
<1>12. ASSUME PushPacket PROVE Values'
  <2>1. demux.held \in Packet
    BY <1>12 DEF PushPacket, Values
  <2>2. demux.held.stream \in Streams
    BY <2>1 DEF Packet
  <2>3. Append(queue[demux.held.stream], demux.held) \in Seq(Packet)
    BY <2>1, <2>2 DEF Values
  <2>4. queue' \in [Streams -> Seq(Packet)]
    BY <1>12, <2>2, <2>3 DEF PushPacket, Values
  <2>5. demux' \in [on : BOOLEAN, read : 0 .. Len(media.packets), held : Packet \cup {NoPacket}]
    BY <1>12 DEF PushPacket, Values
  <2> QED BY <1>12, <2>4, <2>5 DEF PushPacket, DemuxFrame, Values, output, player, notes
<1>13. ASSUME PushRefused PROVE Values'
  <2>1. \A t \in Terminals : Finished(t) \in Terminals
    BY DEF Values, Finished
  <2>2. terminal' \in Terminals
    BY <1>13, <2>1 DEF PushRefused, Values, Terminals
  <2>3. demux' \in [on : BOOLEAN, read : 0 .. Len(media.packets), held : Packet \cup {NoPacket}]
    BY <1>13 DEF PushRefused, Values
  <2> QED BY <1>13, <2>2, <2>3, ScalarTypes DEF PushRefused, DemuxFrame, Values, router, output,
         player, notes, Suffers
<1>14. ASSUME NEW s \in Streams, NEW o \in WorkerOutcomes, Returning(s, o) PROVE Values'
  <2>1. Finished("cancelled") \in Terminals
    BY DEF Values, Finished, Terminals
  <2>2. terminal' \in Terminals /\ stop' \in BOOLEAN
    BY <1>14, <2>1 DEF Returning, Values
  <2>3. trouble' \subseteq {"fault", "told", "closed"}
    BY <1>14 DEF Returning, Values, notes
  <2>4. faults' = faults \/ (faults < MaxTroubles /\ faults' = faults + 1)
    BY <1>14 DEF Returning, notes
  <2>5. faults' \in 0 .. MaxTroubles
    BY <2>4, ScalarTypes DEF Values
  <2> QED BY <1>14, <2>2, <2>3, <2>5 DEF Returning, Values, router, output, player
<1>15. ASSUME NEW s \in Streams, Taking(s) PROVE Values'
  <2>1. Tail(queue[s]) \in Seq(Packet)
    BY <1>15, QueueTypes DEF Taking
  <2>2. queue' \in [Streams -> Seq(Packet)]
    BY <1>15, <2>1, QueueTypes DEF Taking
  <2> QED BY <1>15, <2>2 DEF Taking, Working, Values, output, player, notes
<1>16. ASSUME NEW s \in Playable, Flushing(s) PROVE Values'
  BY <1>16 DEF Flushing, Working, Values, router, output, player, notes
<1>17. ASSUME NEW s \in Playable, Asking(s) PROVE Values'
  BY <1>17 DEF Asking, Working, Values, router, output, player, notes
<1>18. ASSUME Showing PROVE Values'
  <2>1. /\ worker["video"].codec \in Seq(Nat) /\ worker["video"].codec # <<>>
    BY <1>18, RecordTypes DEF Showing, Streams
  <2>2. Head(worker["video"].codec) \in Nat
    BY <2>1
  <2>3. frames' \in Seq(Nat)
    BY <1>18, <2>2, ScalarTypes DEF Showing
  <2>4. given' \in [Playable -> Nat]
    BY <1>18 DEF Showing, Values, Playable
  <2> QED BY <1>18, <2>3, <2>4 DEF Showing, Working, Values, router, player, notes
<1>19. ASSUME Priming PROVE Values'
  BY <1>19 DEF Priming, Working, Values, router, output, player, notes
<1>20. ASSUME Trimming PROVE Values'
  BY <1>20 DEF Trimming, Working, Values, router, output, player, notes
<1>21. ASSUME Subtitling PROVE Values'
  BY <1>21 DEF Subtitling, Working, Values, router, output, player, notes
<1>22. ASSUME NEW codec \in Seq(Nat), Sounding(codec) PROVE Values'
  <2>1. blocks' \in Seq(Nat)
    <3>1. blocks \in Seq(Nat) /\ due \in Nat /\ blocks' = Append(blocks, due)
      BY <1>22, ScalarTypes DEF Sounding
    <3>2. \A q \in Seq(Nat), n \in Nat : Append(q, n) \in Seq(Nat)
      OBVIOUS
    <3> QED BY <3>1, <3>2
  <2>2. due' \in Nat
    <3>1. due \in Nat /\ due' = due + 1
      BY <1>22, ScalarTypes DEF Sounding
    <3> QED BY <3>1
  <2>3. given' \in [Playable -> Nat]
    BY <1>22 DEF Sounding, Values, Playable
  <2> QED BY <1>22, <2>1, <2>2, <2>3 DEF Sounding, Working, Values, router, player, notes
<1> QED BY <1>1, <1>2, <1>3, <1>4, <1>5, <1>6, <1>7, <1>8, <1>9, <1>10, <1>11, <1>12, <1>13, <1>14,
       <1>15, <1>16, <1>17, <1>18, <1>19, <1>20, <1>21, <1>22, EveryStep

(* Whatever the step, everything keeps its type.                                *)
LEMMA TypesStep ==
    ASSUME Types, Stages, [Next]_vars
    PROVE  Types'
<1>1. Values
  BY TypesAre
<1>2. WorkerTypes' /\ Values'
  BY <1>1, WorkerTypesStep, ValuesStep
<1> QED BY <1>2, TypesAre DEF Types, TypeOK, WorkerTypes, Values, CodecOf, WorkerRecord

-------------------------------------------------------------------------------
(* Who is there: Stages is kept.                                                *)

(* A worker that goes on leaves the stages as they are.                         *)
LEMMA StagesKept ==
    ASSUME Types, Stages, NEW s \in Streams, NEW at, NEW codec, NEW flushing,
           Working(s, at, codec, flushing),
           worker[s].at \notin {"absent", "done"}, at \notin {"absent", "done"}
    PROVE  Stages'
<1>1. /\ phase = "running" /\ phase' = phase /\ answer' = answer /\ media' = media
      /\ terminal' = terminal /\ demux' = demux
  BY DEF Working
<1>2. \A t \in Streams \ {s} : worker'[t] = worker[t]
  BY DEF Working, Becomes
<1>3. worker'[s].at = at /\ worker'[s].outcome = worker[s].outcome
  BY DEF Working, Becomes
<1>4. \A t \in Streams : worker'[t].outcome # "none" <=> worker'[t].at = "done"
  BY <1>2, <1>3 DEF Stages
<1>5. worker'["video"].at # "absent" /\ (HasAudio => worker'["audio"].at # "absent")
  BY <1>1, <1>2, <1>3 DEF Stages, Streams
<1> QED BY <1>1, <1>4, <1>5 DEF Stages, HasAudio, Of

(* A worker that returns leaves the stages as they are.                         *)
LEMMA StagesReturn ==
    ASSUME Types, Stages, NEW s \in Streams, NEW o \in WorkerOutcomes, Returning(s, o)
    PROVE  Stages'
<1>1. /\ phase = "running" /\ phase' = phase /\ answer' = answer /\ media' = media
      /\ demux' = demux
  BY DEF Returning, player
<1>2. \A t \in Streams \ {s} : worker'[t] = worker[t]
  BY DEF Returning, Becomes
<1>3. worker'[s].at = "done" /\ worker'[s].outcome = o /\ o # "none"
  BY DEF Returning, Becomes
<1>4. \A t \in Streams : worker'[t].outcome # "none" <=> worker'[t].at = "done"
  BY <1>2, <1>3 DEF Stages
<1>5. worker'["video"].at # "absent" /\ (HasAudio => worker'["audio"].at # "absent")
  BY <1>1, <1>2, <1>3 DEF Stages, Streams
<1> QED BY <1>1, <1>4, <1>5 DEF Stages, HasAudio, Of

(* Whatever the step, its answer tells its stage, and the workers it needs stay there. *)
LEMMA StagesStep ==
    ASSUME Types, Stages, [Next]_vars
    PROVE  Stages'
<1>1. ASSUME Playing PROVE Stages'
  BY <1>1 DEF Playing, pipe, Stages, HasAudio, Of
<1>2. ASSUME Stop PROVE Stages'
  BY <1>2 DEF Stop, Suffers, pipe, Stages, HasAudio, Of
<1>3. ASSUME NEW s \in Playable, CloseSink(s) PROVE Stages'
  BY <1>3 DEF CloseSink, Suffers, pipe, Stages, HasAudio, Of
<1>4. ASSUME OpenCancelled PROVE Stages'
  BY <1>4 DEF OpenCancelled, Ended, pipe, Stages, HasAudio, Of
<1>5. ASSUME OpenFails PROVE Stages'
  BY <1>5 DEF OpenFails, Ended, Suffers, pipe, Stages, HasAudio, Of
<1>6. ASSUME Opening PROVE Stages'
  BY <1>6 DEF Opening, Stages, HasAudio, Of, Streams
<1>7. ASSUME Join PROVE Stages'
  <2>1. Classified # "none"
    BY DEF Classified
  <2> QED BY <1>7, <2>1 DEF Join, Ended, pipe, Stages
<1>8. ASSUME ReadPacket PROVE Stages'
  BY <1>8 DEF ReadPacket, Reading, Demuxing, DemuxFrame, Stages, HasAudio, Of
<1>9. ASSUME ReadEnds PROVE Stages'
  BY <1>9 DEF ReadEnds, Reading, Demuxing, Finished, DemuxFrame, Stages, HasAudio, Of
<1>10. ASSUME ReadFails PROVE Stages'
  BY <1>10 DEF ReadFails, Reading, Demuxing, Finished, DemuxFrame, Suffers, Stages, HasAudio, Of
<1>11. ASSUME ReadStops PROVE Stages'
  BY <1>11 DEF ReadStops, Reading, Demuxing, Finished, DemuxFrame, Stages, HasAudio, Of
<1>12. ASSUME PushPacket PROVE Stages'
  BY <1>12 DEF PushPacket, Demuxing, DemuxFrame, Stages, HasAudio, Of
<1>13. ASSUME PushRefused PROVE Stages'
  BY <1>13 DEF PushRefused, Demuxing, Finished, DemuxFrame, Stages, HasAudio, Of
<1>14. ASSUME NEW s \in Streams, NEW o \in WorkerOutcomes, Returning(s, o) PROVE Stages'
  BY <1>14, StagesReturn
<1>15. ASSUME NEW s \in Streams, Taking(s) PROVE Stages'
  BY <1>15, StagesKept DEF Taking, Streams, Playable
<1>16. ASSUME NEW s \in Playable, Flushing(s) PROVE Stages'
  <2>1. Working(s, "decode", worker[s].codec, TRUE) /\ worker[s].at = "pop" /\ s \in Streams
    BY <1>16 DEF Flushing, Playable, Streams
  <2> QED BY <2>1, StagesKept
<1>17. ASSUME NEW s \in Playable, Asking(s) PROVE Stages'
  BY <1>17, StagesKept DEF Asking, Streams, Playable
<1>18. ASSUME Showing PROVE Stages'
  BY <1>18, StagesKept DEF Showing, Streams, Playable
<1>19. ASSUME Priming PROVE Stages'
  BY <1>19, StagesKept DEF Priming, Streams, Playable
<1>20. ASSUME Trimming PROVE Stages'
  BY <1>20, StagesKept DEF Trimming, Streams, Playable
<1>21. ASSUME Subtitling PROVE Stages'
  BY <1>21, StagesKept DEF Subtitling, Streams, Playable
<1>22. ASSUME NEW codec \in Seq(Nat), Sounding(codec) PROVE Stages'
  BY <1>22, StagesKept DEF Sounding, Streams, Playable
<1> QED BY <1>1, <1>2, <1>3, <1>4, <1>5, <1>6, <1>7, <1>8, <1>9, <1>10, <1>11, <1>12, <1>13,
           <1>14, <1>15, <1>16, <1>17, <1>18, <1>19, <1>20, <1>21, <1>22, EveryStep

-------------------------------------------------------------------------------
(* Why it came about: Reasons is kept.                                          *)

(* A worker that goes on leaves the reasons as they are.                        *)
LEMMA ReasonsKept ==
    ASSUME Types, Reasons, NEW s \in Streams, NEW at, NEW codec, NEW flushing,
           Working(s, at, codec, flushing)
    PROVE  Reasons'
<1>1. \A t \in Streams : worker'[t].outcome = worker[t].outcome
  BY DEF Working, Becomes
<1>2. UNCHANGED <<terminal, stop, demux, media, trouble, sinks>>
  BY DEF Working, notes
<1>3. \A t \in Playable : Grounds(worker[t].outcome)
  BY DEF Reasons
<1>4. \A t \in Playable : Grounds(worker[t].outcome)'
  BY <1>1, <1>2, <1>3 DEF Grounds, Of, Playable, Streams
<1> QED BY <1>2, <1>4 DEF Reasons

(* Everything of the video was handed over once nothing is left of it. *)
LEMMA VideoDone ==
    ASSUME Types, Reasons, VideoCounted, terminal = "endOfStream",
           queue["video"] = <<>>, worker["video"].codec = <<>>
    PROVE  given["video"] = Cardinality(Of(media, "video"))
<1>1. demux.read = Len(media.packets) /\ demux.held = NoPacket
  BY DEF Reasons
<1>2. Holds("video") = 0
  BY <1>1 DEF Holds, NoPacket
<1>3. media \in Media /\ Len(media.packets) \in Nat
  BY ScalarTypes, MediumTypes
<1>4. First(media, "video", demux.read) = Of(media, "video")
  BY <1>1, <1>3, FirstCounted
<1> QED BY <1>2, <1>4, ScalarTypes DEF VideoCounted

(* A worker returns an outcome it has a reason for: a video without a frame     *)
(* that was drained to its end had no packet at all.                            *)
LEMMA ReasonsReturn ==
    ASSUME Types, Reasons, Drains, VideoCounted,
           NEW s \in Streams, NEW o \in WorkerOutcomes, Returning(s, o)
    PROVE  Reasons'
<1>1. /\ UNCHANGED <<demux, media, sinks>> /\ (stop => stop')
      /\ trouble \subseteq trouble'
      /\ \/ terminal' = terminal
         \/ terminal = "open" /\ terminal' = "cancelled" /\ stop'
  BY DEF Returning, Finished, notes
<1>2. /\ \A t \in Streams \ {s} : worker'[t] = worker[t]
      /\ worker'[s].outcome = o
  BY DEF Returning, Becomes
<1>3. \A t \in Playable \ {s} : Grounds(worker[t].outcome)'
  <2>1. \A t \in Playable : Grounds(worker[t].outcome)
    BY DEF Reasons
  <2>2. \A t \in Playable \ {s} : worker'[t].outcome = worker[t].outcome
    BY <1>2 DEF Playable, Streams
  <2> QED BY <2>1, <2>2, <1>1 DEF Grounds, Of
<1>4. ASSUME s \in Playable PROVE Grounds(worker[s].outcome)'
  <2>1. CASE o = "error"
    <3>1. CASE "fault" \in trouble' \/ terminal = "failed"
      BY <1>1, <1>2, <2>1, <3>1 DEF Grounds, Reasons
    <3>2. CASE s = "video" /\ worker[s].flushing /\ worker[s].codec = <<>> /\ given["video"] = 0
      <4>1. terminal = "endOfStream" /\ queue["video"] = <<>>
        BY <3>2, <1>4 DEF Drains, DrainsOf
      <4>2. Cardinality(Of(media, "video")) = 0
        BY <3>2, <4>1, VideoDone
      <4>3. media \in Media /\ 0 \in 0 .. Len(media.packets)
        BY ScalarTypes, MediumTypes
      <4>4. Of(media, "video") = {}
        BY <4>2, <4>3, FirstCounted
      <4> QED BY <1>1, <1>2, <2>1, <4>4 DEF Grounds, Of
    <3> QED BY <2>1, <3>1, <3>2 DEF Returning
  <2>2. CASE o = "stopped"
    BY <1>1, <1>2, <1>4, <2>2 DEF Grounds, Reasons, Returning
  <2>3. CASE o = "cancelled"
    BY <1>1, <1>2, <2>3 DEF Grounds, Returning
  <2>4. CASE o \notin {"error", "stopped", "cancelled"}
    BY <1>2, <2>4 DEF Grounds
  <2> QED BY <2>1, <2>2, <2>3, <2>4
<1>5. \A t \in Playable : Grounds(worker[t].outcome)'
  BY <1>3, <1>4
<1> QED BY <1>1, <1>5 DEF Reasons

(* Whatever the step, a terminal state, a stop and an outcome keep their reasons. *)
LEMMA ReasonsStep ==
    ASSUME Types, Stages, Reasons, Drains, VideoCounted, [Next]_vars
    PROVE  Reasons'
<1>1. ASSUME Playing PROVE Reasons'
  BY <1>1 DEF Playing, pipe, notes, Reasons, Grounds, Of
<1>2. ASSUME Stop PROVE Reasons'
  BY <1>2 DEF Stop, Suffers, pipe, Reasons, Grounds, Of
<1>3. ASSUME NEW s \in Playable, CloseSink(s) PROVE Reasons'
  BY <1>3 DEF CloseSink, Suffers, pipe, Reasons, Grounds, Of
<1>4. ASSUME OpenCancelled PROVE Reasons'
  BY <1>4 DEF OpenCancelled, Ended, pipe, notes, Reasons, Grounds, Of
<1>5. ASSUME OpenFails PROVE Reasons'
  BY <1>5 DEF OpenFails, Ended, Suffers, pipe, Reasons, Grounds, Of
<1>6. ASSUME Opening PROVE Reasons'
  <2>1. \A s \in Playable : worker'[s].outcome = "none"
    BY <1>6 DEF Opening, Streams, Playable
  <2>2. \A s \in Playable : Grounds(worker[s].outcome)'
    BY <2>1 DEF Grounds
  <2> QED BY <1>6, <2>2 DEF Opening, Reasons, Stages, Types, TypeOK, notes
<1>7. ASSUME Join PROVE Reasons'
  BY <1>7 DEF Join, Ended, pipe, notes, Reasons, Grounds, Of
<1>8. ASSUME ReadPacket PROVE Reasons'
  BY <1>8 DEF ReadPacket, Reading, Demuxing, DemuxFrame, notes, Reasons, Grounds, Of
<1>9. ASSUME ReadEnds PROVE Reasons'
  BY <1>9 DEF ReadEnds, Reading, Demuxing, Finished, DemuxFrame, notes, Reasons, Grounds, Of
<1>10. ASSUME ReadFails PROVE Reasons'
  BY <1>10 DEF ReadFails, Reading, Demuxing, Finished, DemuxFrame, Suffers, Reasons, Grounds, Of
<1>11. ASSUME ReadStops PROVE Reasons'
  BY <1>11 DEF ReadStops, Reading, Demuxing, Finished, DemuxFrame, notes, Reasons, Grounds, Of
<1>12. ASSUME PushPacket PROVE Reasons'
  BY <1>12 DEF PushPacket, Demuxing, DemuxFrame, notes, Reasons, Grounds, Of
<1>13. ASSUME PushRefused PROVE Reasons'
  BY <1>13 DEF PushRefused, Demuxing, Finished, DemuxFrame, notes, Reasons, Grounds, Of
<1>14. ASSUME NEW s \in Streams, NEW o \in WorkerOutcomes, Returning(s, o) PROVE Reasons'
  BY <1>14, ReasonsReturn
<1>15. ASSUME NEW s \in Streams, Taking(s) PROVE Reasons'
  BY <1>15, ReasonsKept DEF Taking, Streams, Playable
<1>16. ASSUME NEW s \in Playable, Flushing(s) PROVE Reasons'
  BY <1>16, ReasonsKept DEF Flushing, Streams, Playable
<1>17. ASSUME NEW s \in Playable, Asking(s) PROVE Reasons'
  BY <1>17, ReasonsKept DEF Asking, Streams, Playable
<1>18. ASSUME Showing PROVE Reasons'
  BY <1>18, ReasonsKept DEF Showing, Streams, Playable
<1>19. ASSUME Priming PROVE Reasons'
  BY <1>19, ReasonsKept DEF Priming, Streams, Playable
<1>20. ASSUME Trimming PROVE Reasons'
  BY <1>20, ReasonsKept DEF Trimming, Streams, Playable
<1>21. ASSUME Subtitling PROVE Reasons'
  BY <1>21, ReasonsKept DEF Subtitling, Streams, Playable
<1>22. ASSUME NEW codec \in Seq(Nat), Sounding(codec) PROVE Reasons'
  BY <1>22, ReasonsKept DEF Sounding, Streams, Playable
<1> QED BY <1>1, <1>2, <1>3, <1>4, <1>5, <1>6, <1>7, <1>8, <1>9, <1>10, <1>11, <1>12, <1>13,
           <1>14, <1>15, <1>16, <1>17, <1>18, <1>19, <1>20, <1>21, <1>22, EveryStep

-------------------------------------------------------------------------------
(* Nothing is without a trace: Traces is kept.                                  *)

(* A worker that goes on leaves the traces as they are.                         *)
LEMMA TracesKept ==
    ASSUME Types, Traces, NEW s \in Streams, NEW at, NEW codec, NEW flushing,
           Working(s, at, codec, flushing)
    PROVE  Traces'
<1>1. \A t \in Playable : worker'[t].outcome = worker[t].outcome
  BY DEF Working, Becomes, Playable, Streams
<1>2. UNCHANGED <<phase, terminal, stop, trouble>>
  BY DEF Working, notes
<1>3. \A o : (\E t \in Playable : worker[t].outcome = o) => \E t \in Playable : worker'[t].outcome = o
  BY <1>1
<1> QED BY <1>1, <1>2 DEF Traces

(* A worker that returns leaves the trace of what it stops its siblings for.    *)
LEMMA TracesReturn ==
    ASSUME Types, Stages, Reasons, Traces,
           NEW s \in Streams, NEW o \in WorkerOutcomes, Returning(s, o)
    PROVE  Traces'
<1>1. /\ \A t \in Streams \ {s} : worker'[t] = worker[t]
      /\ worker'[s].outcome = o /\ phase = "running"
  BY DEF Returning, Becomes
<1>2. worker[s].outcome = "none"
  BY DEF Returning, Stages
<1>3. \A t \in Playable : worker[t].outcome # "none" => worker'[t].outcome = worker[t].outcome
  BY <1>1, <1>2 DEF Playable, Streams
<1>4. "fault" \in trouble' => terminal' = "failed" \/ \E t \in Playable : worker'[t].outcome = "error"
  <2>1. CASE trouble' = trouble
    <3>1. terminal = "failed" => terminal' = "failed"
      BY DEF Returning, Finished
    <3> QED BY <1>1, <1>3, <2>1, <3>1 DEF Traces
  <2>2. CASE s \in Playable /\ o = "error"
    BY <1>1, <2>2
  <2> QED BY <2>1, <2>2 DEF Returning, notes
<1>5. stop' => \/ "told" \in trouble'
               \/ \E t \in Playable : worker'[t].outcome \in {"error", "stopped"}
  <2>1. CASE stop' = stop
    <3>1. "told" \in trouble => "told" \in trouble'
      BY DEF Returning, notes
    <3> QED BY <1>1, <1>3, <2>1, <3>1 DEF Traces
  <2>2. CASE s # "subtitle" /\ o \in {"error", "stopped"}
    <3>1. s \in Playable
      BY <2>2 DEF Playable, Streams
    <3> QED BY <1>1, <2>2, <3>1
  <2> QED BY <2>1, <2>2 DEF Returning
<1> QED BY <1>4, <1>5 DEF Traces

(* Whatever the step, a fault or a stop is seen in what the threads return. *)
LEMMA TracesStep ==
    ASSUME Types, Stages, Reasons, Traces, [Next]_vars
    PROVE  Traces'
<1>1. ASSUME Playing PROVE Traces'
  BY <1>1 DEF Playing, pipe, notes, Traces
<1>2. ASSUME Stop PROVE Traces'
  BY <1>2 DEF Stop, Suffers, pipe, Traces
<1>3. ASSUME NEW s \in Playable, CloseSink(s) PROVE Traces'
  BY <1>3 DEF CloseSink, Suffers, pipe, Traces
<1>4. ASSUME OpenCancelled PROVE Traces'
  BY <1>4 DEF OpenCancelled, Ended, pipe, notes, Traces
<1>5. ASSUME OpenFails PROVE Traces'
  BY <1>5 DEF OpenFails, Ended, Suffers, pipe, Traces
<1>6. ASSUME Opening PROVE Traces'
  <2>1. \A s \in Streams : worker[s].outcome = "none"
    BY <1>6 DEF Opening, Idle
  <2>2. terminal = "open" /\ ~stop
    BY <1>6 DEF Opening, Stages
  <2> QED BY <1>6, <2>1, <2>2 DEF Opening, Traces, notes, Streams, Playable
<1>7. ASSUME Join PROVE Traces'
  BY <1>7 DEF Join, Ended, pipe, notes, Traces
<1>8. ASSUME ReadPacket PROVE Traces'
  BY <1>8 DEF ReadPacket, Reading, Demuxing, DemuxFrame, notes, Traces
<1>9. ASSUME ReadEnds PROVE Traces'
  BY <1>9 DEF ReadEnds, Reading, Demuxing, Finished, DemuxFrame, notes, Traces
<1>10. ASSUME ReadFails PROVE Traces'
  <2>1. terminal = "open" \/ terminal = "failed"
    BY <1>10 DEF ReadFails, Reading, Demuxing, Reasons, Types, TypeOK, Terminals
  <2> QED BY <1>10, <2>1 DEF ReadFails, Reading, Demuxing, Finished, DemuxFrame, Traces, Suffers
<1>11. ASSUME ReadStops PROVE Traces'
  BY <1>11 DEF ReadStops, Reading, Demuxing, Finished, DemuxFrame, notes, Traces
<1>12. ASSUME PushPacket PROVE Traces'
  BY <1>12 DEF PushPacket, Demuxing, DemuxFrame, notes, Traces
<1>13. ASSUME PushRefused PROVE Traces'
  BY <1>13 DEF PushRefused, Demuxing, Finished, DemuxFrame, notes, Traces
<1>14. ASSUME NEW s \in Streams, NEW o \in WorkerOutcomes, Returning(s, o) PROVE Traces'
  BY <1>14, TracesReturn
<1>15. ASSUME NEW s \in Streams, Taking(s) PROVE Traces'
  BY <1>15, TracesKept DEF Taking, Streams, Playable
<1>16. ASSUME NEW s \in Playable, Flushing(s) PROVE Traces'
  BY <1>16, TracesKept DEF Flushing, Streams, Playable
<1>17. ASSUME NEW s \in Playable, Asking(s) PROVE Traces'
  BY <1>17, TracesKept DEF Asking, Streams, Playable
<1>18. ASSUME Showing PROVE Traces'
  BY <1>18, TracesKept DEF Showing, Streams, Playable
<1>19. ASSUME Priming PROVE Traces'
  BY <1>19, TracesKept DEF Priming, Streams, Playable
<1>20. ASSUME Trimming PROVE Traces'
  BY <1>20, TracesKept DEF Trimming, Streams, Playable
<1>21. ASSUME Subtitling PROVE Traces'
  BY <1>21, TracesKept DEF Subtitling, Streams, Playable
<1>22. ASSUME NEW codec \in Seq(Nat), Sounding(codec) PROVE Traces'
  BY <1>22, TracesKept DEF Sounding, Streams, Playable
<1> QED BY <1>1, <1>2, <1>3, <1>4, <1>5, <1>6, <1>7, <1>8, <1>9, <1>10, <1>11, <1>12, <1>13,
           <1>14, <1>15, <1>16, <1>17, <1>18, <1>19, <1>20, <1>21, <1>22, EveryStep

-------------------------------------------------------------------------------
(* What is drained stays drained: Drains is kept.                               *)

(* A worker beside the one that works, or one that goes on without flushing. *)
LEMMA DrainsKept ==
    ASSUME Types, Stages, Drains, NEW s \in Streams, NEW at, NEW codec, NEW flushing,
           Working(s, at, codec, flushing), UNCHANGED queue,
           worker[s].at \notin {"absent", "done"}, flushing \in BOOLEAN,
           flushing => worker[s].flushing \/ (terminal = "endOfStream" /\ queue[s] = <<>>)
    PROVE  Drains'
<1>1. \A t \in Streams \ {s} : worker'[t] = worker[t]
  BY DEF Working, Becomes
<1>2. worker'[s].flushing = flushing /\ worker'[s].outcome = worker[s].outcome
  BY DEF Working, Becomes
<1>3. worker[s].outcome = "none" /\ terminal' = terminal /\ queue' = queue
  BY DEF Stages, Working
<1>4. ASSUME NEW t \in Playable, t # s PROVE DrainsOf(t)'
  <2>1. DrainsOf(t) /\ worker'[t] = worker[t]
    BY <1>1, <1>4 DEF Drains, Playable, Streams
  <2> QED BY <2>1, <1>3 DEF DrainsOf
<1>5. ASSUME s \in Playable PROVE DrainsOf(s)'
  <2>1. DrainsOf(s)
    BY <1>5 DEF Drains
  <2> QED BY <2>1, <1>2, <1>3 DEF DrainsOf
<1> QED BY <1>4, <1>5 DEF Drains

(* A worker that takes a packet does not flush.                                 *)
LEMMA DrainsTake ==
    ASSUME Types, Stages, Drains, NEW s \in Streams, Taking(s)
    PROVE  Drains'
<1>1. \A t \in Streams \ {s} : worker'[t] = worker[t] /\ queue'[t] = queue[t]
  BY QueueTypes DEF Taking, Working, Becomes
<1>2. worker'[s].flushing = worker[s].flushing /\ worker'[s].outcome = worker[s].outcome
  BY DEF Taking, Working, Becomes
<1>3. worker[s].outcome = "none" /\ terminal' = terminal /\ ~worker[s].flushing
  BY DEF Stages, Taking, Working, Types, WorkerTypes, CodecOf
<1>4. ASSUME NEW t \in Playable, t # s PROVE DrainsOf(t)'
  <2>1. DrainsOf(t) /\ worker'[t] = worker[t] /\ queue'[t] = queue[t]
    BY <1>1, <1>4 DEF Drains, Playable, Streams
  <2> QED BY <2>1, <1>3 DEF DrainsOf
<1>5. DrainsOf(s)'
  BY <1>2, <1>3 DEF DrainsOf
<1> QED BY <1>4, <1>5 DEF Drains

(* A worker that ends leaves neither a packet nor a frame behind.               *)
LEMMA DrainsReturn ==
    ASSUME Types, Stages, Drains, NEW s \in Streams, NEW o \in WorkerOutcomes, Returning(s, o)
    PROVE  Drains'
<1>1. /\ \A t \in Streams \ {s} : worker'[t] = worker[t]
      /\ worker'[s].flushing = worker[s].flushing /\ worker'[s].outcome = o
      /\ worker'[s].codec = worker[s].codec
  BY DEF Returning, Becomes
<1>2. queue' = queue /\ (terminal = "endOfStream" => terminal' = "endOfStream")
  BY DEF Returning, Finished, router
<1>3. ASSUME NEW t \in Playable, t # s PROVE DrainsOf(t)'
  <2>1. DrainsOf(t) /\ worker'[t] = worker[t]
    BY <1>1, <1>3 DEF Drains, Playable, Streams
  <2> QED BY <2>1, <1>2 DEF DrainsOf
<1>4. ASSUME s \in Playable PROVE DrainsOf(s)'
  <2>1. DrainsOf(s)
    BY <1>4 DEF Drains
  <2>2. o = "ended" => worker[s].flushing /\ worker[s].codec = <<>>
    BY <1>4 DEF Returning, Playable
  <2> QED BY <2>1, <2>2, <1>1, <1>2 DEF DrainsOf
<1> QED BY <1>3, <1>4 DEF Drains

(* Whatever the step, nothing is left behind a worker that flushes or has ended. *)
LEMMA DrainsStep ==
    ASSUME Types, Stages, Reasons, Drains, [Next]_vars
    PROVE  Drains'
<1>1. ASSUME Playing PROVE Drains'
  BY <1>1 DEF Playing, pipe, router, Drains, DrainsOf
<1>2. ASSUME Stop PROVE Drains'
  BY <1>2 DEF Stop, Suffers, pipe, router, Drains, DrainsOf
<1>3. ASSUME NEW s \in Playable, CloseSink(s) PROVE Drains'
  BY <1>3 DEF CloseSink, Suffers, pipe, router, Drains, DrainsOf
<1>4. ASSUME OpenCancelled PROVE Drains'
  BY <1>4 DEF OpenCancelled, Ended, pipe, router, Drains, DrainsOf
<1>5. ASSUME OpenFails PROVE Drains'
  BY <1>5 DEF OpenFails, Ended, Suffers, pipe, router, Drains, DrainsOf
<1>6. ASSUME Opening PROVE Drains'
  BY <1>6 DEF Opening, router, Drains, DrainsOf, Streams, Playable
<1>7. ASSUME Join PROVE Drains'
  BY <1>7 DEF Join, Ended, pipe, router, Drains, DrainsOf
<1>8. ASSUME ReadPacket PROVE Drains'
  BY <1>8 DEF ReadPacket, Reading, Demuxing, DemuxFrame, router, Drains, DrainsOf
<1>9. ASSUME ReadEnds PROVE Drains'
  BY <1>9 DEF ReadEnds, Reading, Demuxing, Finished, DemuxFrame, router, Drains, DrainsOf
<1>10. ASSUME ReadFails PROVE Drains'
  BY <1>10 DEF ReadFails, Reading, Demuxing, Finished, DemuxFrame, Suffers, router, Drains,
         DrainsOf
<1>11. ASSUME ReadStops PROVE Drains'
  BY <1>11 DEF ReadStops, Reading, Demuxing, Finished, DemuxFrame, router, Drains, DrainsOf
<1>12. ASSUME PushPacket PROVE Drains'
  BY <1>12 DEF PushPacket, Demuxing, DemuxFrame, Drains, DrainsOf
<1>13. ASSUME PushRefused PROVE Drains'
  BY <1>13 DEF PushRefused, Demuxing, Finished, DemuxFrame, router, Drains, DrainsOf
<1>14. ASSUME NEW s \in Streams, NEW o \in WorkerOutcomes, Returning(s, o) PROVE Drains'
  BY <1>14, DrainsReturn
<1>15. ASSUME NEW s \in Streams, Taking(s) PROVE Drains'
  BY <1>15, DrainsTake
<1>16. ASSUME NEW s \in Playable, Flushing(s) PROVE Drains'
  BY <1>16, DrainsKept, RecordTypes DEF Flushing, router, Streams, Playable
<1>17. ASSUME NEW s \in Playable, Asking(s) PROVE Drains'
  BY <1>17, DrainsKept, RecordTypes DEF Asking, router, Streams, Playable
<1>18. ASSUME Showing PROVE Drains'
  BY <1>18, DrainsKept, RecordTypes DEF Showing, router, Streams, Playable
<1>19. ASSUME Priming PROVE Drains'
  BY <1>19, DrainsKept, RecordTypes DEF Priming, router, Streams, Playable
<1>20. ASSUME Trimming PROVE Drains'
  BY <1>20, DrainsKept, RecordTypes DEF Trimming, router, Streams, Playable
<1>21. ASSUME Subtitling PROVE Drains'
  BY <1>21, DrainsKept, RecordTypes DEF Subtitling, router, Streams, Playable
<1>22. ASSUME NEW codec \in Seq(Nat), Sounding(codec) PROVE Drains'
  BY <1>22, DrainsKept, RecordTypes DEF Sounding, router, Streams, Playable
<1> QED BY <1>1, <1>2, <1>3, <1>4, <1>5, <1>6, <1>7, <1>8, <1>9, <1>10, <1>11, <1>12, <1>13,
           <1>14, <1>15, <1>16, <1>17, <1>18, <1>19, <1>20, <1>21, <1>22, EveryStep

-------------------------------------------------------------------------------
(* The budget: Within and Counted are kept.                                     *)

(* Only the demuxer's push and a worker's pop change the queues and the         *)
(* counters.                                                                    *)
LEMMA RouterSteps ==
    ASSUME Types, Stages, [Next]_vars
    PROVE  UNCHANGED router \/ PushPacket \/ \E s \in Streams : Taking(s)
<1>1. Playing \/ Stop \/ (\E s \in Playable : CloseSink(s)) \/ OpenCancelled \/ OpenFails
         \/ Join \/ ReadPacket \/ ReadEnds \/ ReadFails \/ ReadStops \/ PushRefused
         \/ Opening \/ (\E s \in Streams, o \in WorkerOutcomes : Returning(s, o))
         => UNCHANGED router
  BY DEF Playing, Stop, CloseSink, OpenCancelled, OpenFails, Join, Ended, ReadPacket, ReadEnds,
         ReadFails, ReadStops, PushRefused, DemuxFrame, Opening, Returning, pipe
<1>2. (\E s \in Playable : Flushing(s) \/ Asking(s)) \/ Showing \/ Priming \/ Trimming
         \/ Subtitling \/ (\E codec \in Seq(Nat) : Sounding(codec))
         => UNCHANGED router
  BY DEF Flushing, Asking, Showing, Priming, Trimming, Subtitling, Sounding
<1> QED BY <1>1, <1>2, EveryStep

(* What a push does to the queues. *)
LEMMA Pushed ==
    ASSUME Types, PushPacket
    PROVE  \E s \in Streams, p \in Packet :
              /\ p = demux.held /\ s = p.stream /\ p.bytes \in Nat
              /\ queue'[s] = Append(queue[s], p)
              /\ \A t \in Streams \ {s} : queue'[t] = queue[t]
              /\ queued'.packets = queued.packets + 1
              /\ queued'.bytes = queued.bytes + p.bytes
              /\ queued.packets < PacketLimit
              /\ queued.packets = 0 \/ p.bytes <= ByteLimit - Least(queued.bytes, ByteLimit)
<1>1. demux.held \in Packet
  BY DEF PushPacket, Types, TypeOK
<1>2. demux.held.stream \in Streams /\ demux.held.bytes \in Nat
  BY <1>1 DEF Packet
<1> QED BY <1>1, <1>2, QueueTypes DEF PushPacket, CanAccept

(* What a pop does to the queues.                                               *)
LEMMA Taken ==
    ASSUME Types, NEW s \in Streams, Taking(s)
    PROVE  /\ queue[s] \in Seq(Packet) /\ queue[s] # <<>>
           /\ Head(queue[s]) \in Packet /\ Head(queue[s]).bytes \in Nat
           /\ queue'[s] = Tail(queue[s])
           /\ \A t \in Streams \ {s} : queue'[t] = queue[t]
           /\ queued'.packets = queued.packets - 1
           /\ queued'.bytes = queued.bytes - Head(queue[s]).bytes
BY QueueTypes DEF Taking

(* The lengths and the limits are numbers.                                      *)
LEMMA Lengths ==
    ASSUME Types
    PROVE  /\ Len(queue["video"]) \in Nat /\ Len(queue["audio"]) \in Nat
           /\ Len(queue["subtitle"]) \in Nat
           /\ PacketLimit \in Nat \ {0} /\ ByteLimit \in Nat \ {0}
<1>1. \A s \in Streams : Len(queue[s]) \in Nat
  BY QueueTypes
<1> QED BY <1>1, BudgetAssumption DEF Streams

(* The sum of the lengths changes with one of them. *)
LEMMA LengthsChange ==
    ASSUME Types, NEW s \in Streams, NEW d \in Int,
           Len(queue'[s]) = Len(queue[s]) + d,
           \A t \in Streams \ {s} : Len(queue'[t]) = Len(queue[t])
    PROVE  /\ PacketsIn(queue') = PacketsIn(queue) + d /\ PacketsIn(queue) \in Nat
           /\ PacketsIn(queue) >= Len(queue[s])
<1> DEFINE v == Len(queue["video"])
           a == Len(queue["audio"])
           b == Len(queue["subtitle"])
           vv == Len(queue'["video"])
           aa == Len(queue'["audio"])
           bb == Len(queue'["subtitle"])
<1>1. v \in Nat /\ a \in Nat /\ b \in Nat
  BY Lengths
<1>2. \/ vv = v + d /\ aa = a /\ bb = b /\ Len(queue[s]) = v
      \/ vv = v /\ aa = a + d /\ bb = b /\ Len(queue[s]) = a
      \/ vv = v /\ aa = a /\ bb = b + d /\ Len(queue[s]) = b
  BY Zenon DEF Streams
<1>3. PacketsIn(queue') = vv + aa + bb /\ PacketsIn(queue) = v + a + b
  BY DEF PacketsIn
<1> HIDE DEF v, a, b, vv, aa, bb
<1>4. vv + aa + bb = v + a + b + d /\ v + a + b \in Nat /\ v + a + b >= Len(queue[s])
  BY <1>1, <1>2
<1> QED BY <1>3, <1>4

(* Whatever the step, the counter of packets tells how many the queues hold,    *)
(* and never more than the limit.                                               *)
LEMMA PacketsCounted ==
    ASSUME Types, Stages, Within, Counted, [Next]_vars
    PROVE  /\ queued'.packets = PacketsIn(queue')
           /\ queued'.packets <= PacketLimit /\ queued'.packets \in Nat
<1>1. queued.packets \in Nat /\ PacketLimit \in Nat
  BY Lengths DEF Counted
<1>2. CASE UNCHANGED router
  BY <1>1, <1>2 DEF router, Within
<1>3. CASE PushPacket
  <2>1. PICK s \in Streams, p \in Packet :
           /\ queue'[s] = Append(queue[s], p)
           /\ \A t \in Streams \ {s} : queue'[t] = queue[t]
           /\ queued'.packets = queued.packets + 1 /\ queued.packets < PacketLimit
    BY <1>3, Pushed
  <2>2. Len(queue'[s]) = Len(queue[s]) + 1
    BY <2>1, QueueTypes
  <2>3. \A t \in Streams \ {s} : Len(queue'[t]) = Len(queue[t])
    BY <2>1
  <2>4. PacketsIn(queue') = PacketsIn(queue) + 1
    BY <2>2, <2>3, LengthsChange
  <2>5. PacketsIn(queue) = queued.packets
    BY DEF Within
  <2> QED BY <1>1, <2>1, <2>4, <2>5
<1>4. ASSUME NEW s \in Streams, Taking(s)
      PROVE  /\ queued'.packets = PacketsIn(queue')
             /\ queued'.packets <= PacketLimit /\ queued'.packets \in Nat
  <2>1. /\ queue[s] \in Seq(Packet) /\ queue[s] # <<>> /\ queue'[s] = Tail(queue[s])
        /\ queued'.packets = queued.packets - 1
    BY <1>4, Taken
  <2>2. \A t \in Streams \ {s} : queue'[t] = queue[t]
    BY <1>4, Taken
  <2>3. Len(queue'[s]) = Len(queue[s]) + (-1) /\ Len(queue[s]) > 0 /\ Len(queue[s]) \in Nat
    BY <2>1
  <2>4. \A t \in Streams \ {s} : Len(queue'[t]) = Len(queue[t])
    BY <2>2
  <2>5. PacketsIn(queue') = PacketsIn(queue) + (-1) /\ PacketsIn(queue) >= Len(queue[s])
    <3>1. -1 \in Int
      OBVIOUS
    <3> QED BY <3>1, <2>3, <2>4, LengthsChange
  <2>6. PacketsIn(queue) = queued.packets /\ queued.packets <= PacketLimit
    BY DEF Within
  <2> QED BY <1>1, <2>1, <2>3, <2>5, <2>6
<1> QED BY <1>2, <1>3, <1>4, RouterSteps

(* A counter at zero means that nothing is queued.                              *)
LEMMA NoneQueued ==
    ASSUME Types, Within, queued.packets = 0
    PROVE  \A s \in Streams : queue[s] = <<>>
<1> DEFINE v == Len(queue["video"])
           a == Len(queue["audio"])
           b == Len(queue["subtitle"])
<1>1. v \in Nat /\ a \in Nat /\ b \in Nat /\ v + a + b = 0
  BY Lengths DEF Within, PacketsIn
<1>2. \A s \in Streams : Len(queue[s]) \in {v, a, b}
  BY DEF Streams
<1> HIDE DEF v, a, b
<1>3. \A s \in Streams : Len(queue[s]) = 0
  BY <1>1, <1>2
<1> QED BY <1>3, QueueTypes

(* Whatever the step, the bytes stay within the limit, or one packet has all of *)
(* them: the oversized one was taken alone, and beside it only packets without  *)
(* bytes are.                                                                   *)
LEMMA BytesBounded ==
    ASSUME Types, Stages, Within, Counted, [Next]_vars
    PROVE  \/ queued'.bytes <= ByteLimit
           \/ \E s \in Streams : \E i \in DOMAIN queue'[s] : Beyond(s, i)'
<1>1. queued.bytes \in Nat /\ queued.packets \in Nat /\ ByteLimit \in Nat
  BY Lengths DEF Counted
<1>2. CASE UNCHANGED router
  BY <1>2 DEF router, Within, Beyond
<1>3. CASE PushPacket
  <2>1. PICK s \in Streams, p \in Packet :
           /\ p.bytes \in Nat /\ queue'[s] = Append(queue[s], p)
           /\ \A t \in Streams \ {s} : queue'[t] = queue[t]
           /\ queued'.bytes = queued.bytes + p.bytes
           /\ queued.packets = 0 \/ p.bytes <= ByteLimit - Least(queued.bytes, ByteLimit)
    BY <1>3, Pushed
  <2>2. /\ Len(queue[s]) \in Nat /\ Len(queue'[s]) = Len(queue[s]) + 1
        /\ DOMAIN queue'[s] = 1 .. Len(queue[s]) + 1
        /\ DOMAIN queue[s] = 1 .. Len(queue[s])
        /\ queue'[s][Len(queue[s]) + 1] = p
        /\ \A i \in DOMAIN queue[s] : queue'[s][i] = queue[s][i]
    BY <2>1, QueueTypes
  <2>3. CASE queued.packets = 0
    <3>1. \A t \in Streams : queue[t] = <<>>
      BY <2>3, NoneQueued
    <3>2. queued.bytes = 0
      <4>1. PICK v \in Nat, a \in Nat, b \in Nat :
               /\ Totals(<<>>, v) /\ Totals(<<>>, a) /\ Totals(<<>>, b)
               /\ queued.bytes = v + a + b
        BY <3>1 DEF Counted, Streams
      <4>2. \A n \in Nat : Totals(<<>>, n) => n = 0
        BY DEF Totals, Sums
      <4> QED BY <4>1, <4>2
    <3>3. DOMAIN queue'[s] = {1} /\ queue'[s][1] = p
      BY <2>2, <3>1
    <3>4. \A t \in Streams \ {s} : DOMAIN queue'[t] = {}
      BY <2>1, <3>1
    <3>5. queue'[s][1].bytes = queued'.bytes
      BY <2>1, <3>2, <3>3
    <3>6. \A t \in Streams : \A j \in DOMAIN queue'[t] : t = s /\ j = 1
      BY <3>3, <3>4
    <3>7. Beyond(s, 1)'
      BY <3>5, <3>6 DEF Beyond
    <3> QED BY <3>3, <3>7
  <2>4. CASE queued.bytes <= ByteLimit /\ queued.packets # 0
    BY <1>1, <2>1, <2>4 DEF Least
  <2>5. CASE queued.bytes > ByteLimit /\ queued.packets # 0
    <3>1. p.bytes = 0 /\ queued'.bytes = queued.bytes
      BY <1>1, <2>1, <2>5 DEF Least
    <3>a. PICK t \in Streams : \E i \in DOMAIN queue[t] : Beyond(t, i)
      BY <1>1, <2>5 DEF Within
    <3>2. PICK i \in DOMAIN queue[t] : Beyond(t, i)
      BY <3>a
    <3>3. \A u \in Streams : \A j \in DOMAIN queue'[u] :
             \/ j \in DOMAIN queue[u] /\ queue'[u][j] = queue[u][j]
             \/ queue'[u][j] = p
      BY <2>1, <2>2
    <3>4. \A u \in Streams : \A j \in DOMAIN queue[u] :
             j \in DOMAIN queue'[u] /\ queue'[u][j] = queue[u][j]
      BY <2>1, <2>2
    <3>5. Beyond(t, i)'
      BY <3>1, <3>2, <3>3, <3>4 DEF Beyond
    <3> QED BY <3>2, <3>4, <3>5
  <2> QED BY <1>1, <2>3, <2>4, <2>5
<1>4. ASSUME NEW s \in Streams, Taking(s)
      PROVE  \/ queued'.bytes <= ByteLimit
             \/ \E t \in Streams : \E i \in DOMAIN queue'[t] : Beyond(t, i)'
  <2> DEFINE q == queue[s]
             n == Len(queue[s])
  <2>1. /\ q \in Seq(Packet) /\ q # <<>> /\ n \in Nat /\ n > 0
        /\ Head(q) = q[1] /\ queue'[s] = Tail(q)
        /\ DOMAIN q = 1 .. n /\ DOMAIN queue'[s] = 1 .. n - 1
        /\ \A j \in 1 .. n - 1 : queue'[s][j] = q[j + 1]
    <3>1. q \in Seq(Packet) /\ q # <<>> /\ queue'[s] = Tail(q)
      BY <1>4, Taken
    <3>2. n = Len(q)
      OBVIOUS
    <3> HIDE DEF q, n
    <3> QED BY <3>1, <3>2
  <2>2. \A t \in Streams \ {s} : queue'[t] = queue[t]
    BY <1>4, Taken
  <2>3. queued'.bytes = queued.bytes - q[1].bytes /\ q[1].bytes \in Nat
    BY <1>4, <2>1, Taken
  <2> HIDE DEF q, n
  <2>4. CASE queued.bytes <= ByteLimit
    BY <1>1, <2>3, <2>4
  <2>5. CASE queued.bytes > ByteLimit
    <3>a. PICK t \in Streams : \E i \in DOMAIN queue[t] : Beyond(t, i)
      BY <1>1, <2>5 DEF Within
    <3>1. PICK i \in DOMAIN queue[t] : Beyond(t, i)
      BY <3>a
    <3>2. CASE t = s /\ i = 1
      BY <1>1, <2>3, <3>1, <3>2 DEF Beyond, q
    <3>3. CASE ~(t = s /\ i = 1)
      <4>1. q[1].bytes = 0
        BY <2>1, <3>1, <3>3 DEF Beyond, q
      <4>2. queued'.bytes = queued.bytes
        BY <1>1, <2>3, <4>1
      <4>3. CASE t = s
        <5>1. i - 1 \in 1 .. n - 1 /\ (i - 1) + 1 = i /\ i \in 1 .. n
          BY <2>1, <3>1, <3>3, <4>3 DEF q
        <5>2. queue'[s][i - 1].bytes = queued'.bytes
          BY <2>1, <3>1, <4>2, <4>3, <5>1 DEF Beyond, q
        <5>3. ASSUME NEW j \in 1 .. n - 1, j # i - 1 PROVE queue'[s][j].bytes = 0
          <6>1. j + 1 \in 1 .. n /\ j + 1 # i
            BY <2>1, <5>1, <5>3
          <6> QED BY <2>1, <3>1, <4>3, <6>1 DEF Beyond, q
        <5>4. ASSUME NEW u \in Streams \ {s}, NEW j \in DOMAIN queue'[u] PROVE queue'[u][j].bytes = 0
          BY <2>2, <3>1, <4>3, <5>4 DEF Beyond
        <5>5. Beyond(s, i - 1)'
          BY <2>1, <5>2, <5>3, <5>4 DEF Beyond
        <5> QED BY <2>1, <5>1, <5>5
      <4>4. CASE t # s
        <5>1. i \in DOMAIN queue'[t] /\ queue'[t][i].bytes = queued'.bytes
          BY <2>2, <3>1, <4>2, <4>4 DEF Beyond
        <5>2. ASSUME NEW j \in 1 .. n - 1 PROVE queue'[s][j].bytes = 0
          <6>1. j + 1 \in 1 .. n
            BY <2>1
          <6> QED BY <2>1, <3>1, <4>4, <6>1 DEF Beyond, q
        <5>3. ASSUME NEW u \in Streams \ {s}, NEW j \in DOMAIN queue'[u], <<u, j>> # <<t, i>>
              PROVE  queue'[u][j].bytes = 0
          BY <2>2, <3>1, <5>3 DEF Beyond
        <5>4. Beyond(t, i)'
          BY <2>1, <5>1, <5>2, <5>3 DEF Beyond
        <5> QED BY <5>1, <5>4
      <4> QED BY <4>3, <4>4
    <3> QED BY <3>2, <3>3
  <2> QED BY <1>1, <2>4, <2>5
<1> QED BY <1>2, <1>3, <1>4, RouterSteps

(* Within is kept.                                                              *)
LEMMA WithinStep ==
    ASSUME Types, Stages, Within, Counted, [Next]_vars
    PROVE  Within'
BY PacketsCounted, BytesBounded DEF Within

(* Counted is kept: the counter of bytes tells what the packets in the queues   *)
(* add up to.                                                                   *)
LEMMA CountedStep ==
    ASSUME Types, Stages, Within, Counted, [Next]_vars
    PROVE  Counted'
<1>1. PICK v \in Nat, a \in Nat, b \in Nat :
         /\ Totals(queue["video"], v) /\ Totals(queue["audio"], a) /\ Totals(queue["subtitle"], b)
         /\ queued.bytes = v + a + b
  BY DEF Counted
<1> DEFINE T == [s \in Streams |-> IF s = "video" THEN v ELSE IF s = "audio" THEN a ELSE b]
<1>2. /\ T \in [Streams -> Nat] /\ queued.bytes = T["video"] + T["audio"] + T["subtitle"]
      /\ \A s \in Streams : T[s] \in Nat /\ Totals(queue[s], T[s])
  BY <1>1 DEF Streams
<1> HIDE DEF T
<1>3. queued.packets \in Nat
  BY DEF Counted
<1>4. ASSUME NEW U \in [Streams -> Nat], \A s \in Streams : Totals(queue'[s], U[s]),
             queued'.bytes = U["video"] + U["audio"] + U["subtitle"],
             queued' = [packets |-> queued'.packets, bytes |-> queued'.bytes]
      PROVE  Counted'
  <2>1. queued'.packets \in Nat
    BY PacketsCounted
  <2>2. U["video"] \in Nat /\ U["audio"] \in Nat /\ U["subtitle"] \in Nat
    BY DEF Streams
  <2>3. queued'.bytes \in Nat
    BY <1>4, <2>2
  <2>4. queued' \in [packets : Nat, bytes : Nat]
    BY <1>4, <2>1, <2>3
  <2> QED BY <1>4, <2>2, <2>4 DEF Counted, Streams
<1>5. CASE UNCHANGED router
  BY <1>5 DEF router, Counted
<1>6. CASE PushPacket
  <2>1. PICK s \in Streams, p \in Packet :
           /\ p.bytes \in Nat /\ queue'[s] = Append(queue[s], p)
           /\ \A t \in Streams \ {s} : queue'[t] = queue[t]
           /\ queued'.bytes = queued.bytes + p.bytes
    BY <1>6, Pushed
  <2> DEFINE U == [T EXCEPT ![s] = T[s] + p.bytes]
  <2>2. U \in [Streams -> Nat]
    BY <1>2, <2>1
  <2>3. Totals(queue'[s], U[s])
    BY <1>2, <2>1, QueueTypes, TotalsAppend
  <2>4. \A t \in Streams \ {s} : Totals(queue'[t], U[t])
    BY <1>2, <2>1
  <2>5. queued'.bytes = U["video"] + U["audio"] + U["subtitle"]
    BY <1>2, <2>1 DEF Streams
  <2>6. queued' = [packets |-> queued'.packets, bytes |-> queued'.bytes]
    BY <1>6 DEF PushPacket
  <2> HIDE DEF U
  <2> QED BY <1>4, <2>2, <2>3, <2>4, <2>5, <2>6
<1>7. ASSUME NEW s \in Streams, Taking(s) PROVE Counted'
  <2>1. /\ queue[s] \in Seq(Packet) /\ queue[s] # <<>> /\ queue'[s] = Tail(queue[s])
        /\ \A t \in Streams \ {s} : queue'[t] = queue[t]
        /\ queued'.bytes = queued.bytes - Head(queue[s]).bytes
        /\ Head(queue[s]).bytes \in Nat
    BY <1>7, Taken
  <2> DEFINE n == T[s] - Head(queue[s]).bytes
             U == [T EXCEPT ![s] = n]
  <2>2. n \in Nat /\ Totals(queue'[s], n)
    BY <1>2, <2>1, TotalsTail
  <2>3. U \in [Streams -> Nat] /\ U[s] = n
    BY <1>2, <2>2
  <2>4. \A t \in Streams \ {s} : Totals(queue'[t], U[t])
    BY <1>2, <2>1
  <2>5. queued'.bytes = U["video"] + U["audio"] + U["subtitle"]
    BY <1>2, <2>1 DEF Streams
  <2>6. queued' = [packets |-> queued'.packets, bytes |-> queued'.bytes]
    BY <1>7 DEF Taking
  <2> HIDE DEF U, n
  <2> QED BY <1>4, <2>2, <2>3, <2>4, <2>5, <2>6
<1> QED BY <1>5, <1>6, <1>7, RouterSteps

-------------------------------------------------------------------------------
(* The video: VideoCounted is kept.                                             *)

(* The five numbers VideoCounted relates.                                       *)
LEMMA VideoTypes ==
    ASSUME Types
    PROVE  /\ given["video"] \in Nat /\ Len(worker["video"].codec) \in Nat
           /\ Len(queue["video"]) \in Nat /\ Holds("video") \in {0, 1}
           /\ media \in Media /\ Len(media.packets) \in Nat
           /\ demux.read \in Nat /\ demux.read \in 0 .. Len(media.packets)
           /\ Cardinality(First(media, "video", demux.read)) \in Nat
           /\ given["video"] \in Int /\ Len(worker["video"].codec) \in Int
           /\ Len(queue["video"]) \in Int /\ Holds("video") \in Int
           /\ Cardinality(First(media, "video", demux.read)) \in Int
<1>1. media \in Media /\ given["video"] \in Nat
  BY ScalarTypes
<1>2. Len(media.packets) \in Nat
  BY <1>1, MediumTypes
<1>3. demux.read \in 0 .. Len(media.packets)
  BY DEF Types, TypeOK
<1>4. Cardinality(First(media, "video", demux.read)) \in Nat
  BY <1>1, <1>3, FirstCounted
<1>5. Len(worker["video"].codec) \in Nat /\ Len(queue["video"]) \in Nat
  BY RecordTypes, Lengths DEF Streams
<1> QED BY <1>1, <1>2, <1>3, <1>4, <1>5 DEF Holds

(* One frame moves on, or one packet is read. *)
LEMMA VideoMoves ==
    ASSUME Types, VideoCounted, media' = media,
           NEW g \in Int, NEW c \in Int, NEW q \in Int, NEW h \in Int, NEW n \in Int,
           given'["video"] = given["video"] + g,
           Len(worker'["video"].codec) = Len(worker["video"].codec) + c,
           Len(queue'["video"]) = Len(queue["video"]) + q,
           Holds("video")' = Holds("video") + h,
           Cardinality(First(media, "video", demux'.read)) =
              Cardinality(First(media, "video", demux.read)) + n,
           g + c + q + h = n,
           worker'["video"].outcome = "ended" => given'["video"] > 0
    PROVE  VideoCounted'
<1> DEFINE g0 == given["video"]
           c0 == Len(worker["video"].codec)
           q0 == Len(queue["video"])
           h0 == Holds("video")
           n0 == Cardinality(First(media, "video", demux.read))
           g1 == given'["video"]
           c1 == Len(worker'["video"].codec)
           q1 == Len(queue'["video"])
           n1 == Cardinality(First(media, "video", demux'.read))
           h1 == Holds("video")'
<1>1. g0 \in Int /\ c0 \in Int /\ q0 \in Int /\ h0 \in Int /\ n0 \in Int
  BY VideoTypes, Zenon
<1>2. g0 + c0 + q0 + h0 = n0
  BY DEF VideoCounted
<1>3. g1 = g0 + g /\ c1 = c0 + c /\ q1 = q0 + q /\ h1 = h0 + h /\ n1 = n0 + n
  OBVIOUS
<1>4. g1 + c1 + q1 + h1 = n1 => VideoCounted'
  BY DEF VideoCounted
<1> HIDE DEF g0, c0, q0, h0, n0, g1, c1, q1, n1, h1
<1>5. (g0 + g) + (c0 + c) + (q0 + q) + (h0 + h) = n0 + n
  <2>1. (g0 + g) + (c0 + c) + (q0 + q) + (h0 + h) = (g0 + c0 + q0 + h0) + (g + c + q + h)
    BY <1>1
  <2> QED BY <1>2, <2>1
<1>6. g1 + c1 + q1 + h1 = n1
  BY <1>3, <1>5, Zenon
<1> QED BY <1>4, <1>6

(* A step that moves no frame leaves the count as it is.                        *)
LEMMA VideoStays ==
    ASSUME Types, VideoCounted, media' = media, demux'.read = demux.read,
           Holds("video")' = Holds("video"), queue'["video"] = queue["video"],
           given'["video"] = given["video"],
           worker'["video"].codec = worker["video"].codec,
           worker'["video"].outcome = "ended" => given["video"] > 0
    PROVE  VideoCounted'
BY DEF VideoCounted

(* Whatever the step, every video packet that was read is handed over or under  *)
(* way.                                                                         *)
LEMMA VideoCountedStep ==
    ASSUME Types, Stages, VideoCounted, [Next]_vars
    PROVE  VideoCounted'
<1>0. "video" \in Streams /\ "audio" \in Streams /\ "subtitle" \in Streams /\ 0 \in Int /\ 1 \in Int /\ -1 \in Int
  BY DEF Streams
<1>1. worker["video"].outcome = "ended" => given["video"] > 0
  BY DEF VideoCounted
<1>2. ASSUME Playing \/ Stop \/ (\E s \in Playable : CloseSink(s)) \/ OpenCancelled \/ OpenFails
               \/ Join
      PROVE  VideoCounted'
  <2>1. UNCHANGED <<media, demux, queue, given, worker>>
    BY <1>2 DEF Playing, Stop, CloseSink, OpenCancelled, OpenFails, Join, Ended, pipe, router,
           output
  <2> QED BY <1>1, <2>1, VideoStays DEF Holds
<1>3. ASSUME ReadEnds \/ ReadFails \/ ReadStops \/ PushRefused PROVE VideoCounted'
  <2>1. UNCHANGED <<media, queue, given, worker>> /\ demux' = [demux EXCEPT !.on = FALSE]
    BY <1>3 DEF ReadEnds, ReadFails, ReadStops, PushRefused, DemuxFrame, router, output
  <2>2. demux'.read = demux.read /\ demux'.held = demux.held
    BY <2>1 DEF Types, TypeOK
  <2> QED BY <1>1, <2>1, <2>2, VideoStays DEF Holds
<1>4. ASSUME Opening PROVE VideoCounted'
  <2>1. /\ UNCHANGED <<media, queue, given>> /\ demux' = [demux EXCEPT !.on = TRUE]
        /\ worker'["video"].codec = <<>> /\ worker["video"].codec = <<>>
        /\ worker'["video"].outcome = "none"
    BY <1>0, <1>4 DEF Opening, Idle, router, output
  <2>2. demux'.read = demux.read /\ demux'.held = demux.held
    BY <2>1 DEF Types, TypeOK
  <2> QED BY <2>1, <2>2, VideoStays DEF Holds
<1>5. ASSUME NEW s \in Streams, NEW o \in WorkerOutcomes, Returning(s, o) PROVE VideoCounted'
  <2>1. UNCHANGED <<media, demux, queue, given>>
    BY <1>5 DEF Returning, router, output
  <2>2. worker'["video"].codec = worker["video"].codec
    BY <1>0, <1>5 DEF Returning, Becomes
  <2>3. worker'["video"].outcome = "ended" => given["video"] > 0
    <3>1. CASE s = "video"
      <4>1. worker'["video"].outcome = "ended" => given["video"] # 0
        BY <1>5, <3>1 DEF Returning, Becomes
      <4> QED BY <4>1, VideoTypes
    <3>2. CASE s # "video"
      <4>1. worker'["video"] = worker["video"]
        BY <1>0, <1>5, <3>2 DEF Returning, Becomes
      <4> QED BY <1>1, <4>1
    <3> QED BY <3>1, <3>2
  <2> QED BY <2>1, <2>2, <2>3, VideoStays DEF Holds
<1>6. ASSUME NEW s \in Streams, NEW at, NEW codec, NEW flushing, Working(s, at, codec, flushing),
             UNCHANGED queue, given'["video"] = given["video"],
             s = "video" => codec = worker["video"].codec
      PROVE  VideoCounted'
  <2>1. UNCHANGED <<media, demux>>
    BY <1>6 DEF Working
  <2>2. /\ worker'["video"].codec = worker["video"].codec
        /\ worker'["video"].outcome = worker["video"].outcome
    BY <1>0, <1>6 DEF Working, Becomes
  <2> QED BY <1>1, <1>6, <2>1, <2>2, VideoStays DEF Holds
<1>7. ASSUME (\E s \in Playable : Flushing(s) \/ Asking(s)) \/ Priming \/ Trimming \/ Subtitling
      PROVE  VideoCounted'
  <2>1. \A s \in Playable : s \in Streams
    BY DEF Playable, Streams
  <2>2. UNCHANGED <<queue, given>>
    BY <1>7 DEF Flushing, Asking, Priming, Trimming, Subtitling, router, output
  <2>3. \A s \in Playable : Flushing(s) \/ Asking(s) => VideoCounted'
    BY <1>6, <2>1, <2>2 DEF Flushing, Asking
  <2> QED BY <1>0, <1>6, <1>7, <2>2, <2>3 DEF Priming, Trimming, Subtitling
<1>8. ASSUME NEW codec \in Seq(Nat), Sounding(codec) PROVE VideoCounted'
  <2>1. UNCHANGED queue /\ given'["video"] = given["video"]
    BY <1>8 DEF Sounding, router, Types, TypeOK, Playable
  <2> QED BY <1>0, <1>6, <1>8, <2>1 DEF Sounding
<1>9. ASSUME NEW s \in Streams, Taking(s) PROVE VideoCounted'
  <2>1. UNCHANGED <<media, demux, given>>
    BY <1>9 DEF Taking, Working, output
  <2>2. CASE s = "video"
    <3>1. /\ queue["video"] \in Seq(Packet) /\ queue["video"] # <<>>
          /\ queue'["video"] = Tail(queue["video"])
      BY <1>9, <2>2, Taken
    <3>2. Len(queue'["video"]) = Len(queue["video"]) + (-1)
      BY <3>1
    <3>3. worker["video"].codec \in Seq(Nat) /\ Head(queue["video"]).at \in Nat
      BY <1>0, <3>1, RecordTypes, QueueTypes
    <3>4. /\ worker'["video"].codec = Append(worker["video"].codec, Head(queue["video"]).at)
          /\ worker'["video"].outcome = worker["video"].outcome
      BY <1>9, <2>2 DEF Taking, Working, Becomes
    <3>5. Len(worker'["video"].codec) = Len(worker["video"].codec) + 1
      BY <3>3, <3>4
    <3>6. Holds("video")' = Holds("video")
      BY <2>1 DEF Holds
    <3>7. /\ given'["video"] = given["video"] + 0 /\ Holds("video")' = Holds("video") + 0
          /\ Cardinality(First(media, "video", demux'.read)) =
                Cardinality(First(media, "video", demux.read)) + 0
      BY <2>1, <3>6, VideoTypes
    <3>8. 0 + 1 + (-1) + 0 = 0
      OBVIOUS
    <3>9. worker'["video"].outcome = "ended" => given'["video"] > 0
      BY <1>1, <2>1, <3>4
    <3> QED BY <1>0, <2>1, <3>2, <3>5, <3>7, <3>8, <3>9, VideoMoves, Zenon
  <2>3. CASE s # "video"
    <3>1. queue'["video"] = queue["video"]
      BY <1>0, <1>9, <2>3, Taken
    <3>2. worker'["video"] = worker["video"]
      BY <1>0, <1>9, <2>3 DEF Taking, Working, Becomes
    <3> QED BY <1>1, <2>1, <3>1, <3>2, VideoStays DEF Holds
  <2> QED BY <2>2, <2>3
<1>10. ASSUME Showing PROVE VideoCounted'
  <2>1. UNCHANGED <<media, demux, queue>>
    BY <1>10 DEF Showing, Working, router
  <2>2. given'["video"] = given["video"] + 1
    BY <1>10 DEF Showing, Types, TypeOK, Playable
  <2>3. worker["video"].codec \in Seq(Nat) /\ worker["video"].codec # <<>>
    BY <1>0, <1>10, RecordTypes DEF Showing
  <2>4. worker'["video"].codec = Tail(worker["video"].codec)
    BY <1>10 DEF Showing, Working, Becomes
  <2>5. Len(worker'["video"].codec) = Len(worker["video"].codec) + (-1)
    BY <2>3, <2>4
  <2>6. Holds("video")' = Holds("video")
    BY <2>1 DEF Holds
  <2>7. /\ Len(queue'["video"]) = Len(queue["video"]) + 0
        /\ Holds("video")' = Holds("video") + 0
        /\ Cardinality(First(media, "video", demux'.read)) =
              Cardinality(First(media, "video", demux.read)) + 0
        /\ given'["video"] > 0
    BY <2>1, <2>2, <2>6, VideoTypes
  <2>8. 1 + (-1) + 0 + 0 = 0
    OBVIOUS
  <2> QED BY <1>0, <2>1, <2>2, <2>5, <2>7, <2>8, VideoMoves, Zenon
<1>11. ASSUME PushPacket PROVE VideoCounted'
  <2>1. UNCHANGED <<media, given, worker>> /\ demux' = [demux EXCEPT !.held = NoPacket]
    BY <1>11 DEF PushPacket, DemuxFrame, output
  <2>2. demux'.read = demux.read /\ demux'.held = NoPacket
    BY <2>1 DEF Types, TypeOK
  <2>3. Holds("video")' = 0
    BY <2>2 DEF Holds, NoPacket
  <2>4. PICK s \in Streams, p \in Packet :
           /\ p = demux.held /\ s = p.stream
           /\ queue'[s] = Append(queue[s], p)
           /\ \A t \in Streams \ {s} : queue'[t] = queue[t]
    BY <1>11, Pushed
  <2>5. CASE s = "video"
    <3>1. Holds("video") = 1
      BY <2>4, <2>5 DEF Holds
    <3>2. Len(queue'["video"]) = Len(queue["video"]) + 1
      BY <1>0, <2>4, <2>5, QueueTypes
    <3>3. /\ Holds("video")' = Holds("video") + (-1)
          /\ given'["video"] = given["video"] + 0
          /\ Len(worker'["video"].codec) = Len(worker["video"].codec) + 0
          /\ Cardinality(First(media, "video", demux'.read)) =
                Cardinality(First(media, "video", demux.read)) + 0
      BY <2>1, <2>2, <2>3, <3>1, VideoTypes
    <3>4. 0 + 0 + 1 + (-1) = 0
      OBVIOUS
    <3>5. worker'["video"].outcome = "ended" => given'["video"] > 0
      BY <1>1, <2>1
    <3> QED BY <1>0, <2>1, <3>2, <3>3, <3>4, <3>5, VideoMoves, Zenon
  <2>6. CASE s # "video"
    <3>1. Holds("video") = 0 /\ queue'["video"] = queue["video"]
      BY <1>0, <2>4, <2>6 DEF Holds
    <3> QED BY <1>1, <2>1, <2>2, <2>3, <3>1, VideoStays
  <2> QED BY <2>5, <2>6
<1>12. ASSUME ReadPacket PROVE VideoCounted'
  <2> DEFINE p == media.packets[demux.read + 1]
  <2>1. /\ UNCHANGED <<media, given, worker, queue>>
        /\ demux' = [demux EXCEPT !.read = @ + 1, !.held = Destined(p)]
        /\ demux.held = NoPacket /\ demux.read < Len(media.packets) /\ phase = "running"
    BY <1>12 DEF ReadPacket, Reading, Demuxing, DemuxFrame, output, router
  <2>2. demux'.read = demux.read + 1 /\ demux'.held = Destined(p)
    BY <2>1 DEF Types, TypeOK
  <2>3. Holds("video") = 0
    BY <2>1 DEF Holds, NoPacket
  <2>4. Holds("video")' = IF p.stream = "video" THEN 1 ELSE 0
    <3>1. worker["video"].at # "absent"
      BY <2>1 DEF Stages
    <3> QED BY <2>2, <3>1 DEF Holds, Destined, NoPacket
  <2>5. Cardinality(First(media, "video", demux'.read)) =
           Cardinality(First(media, "video", demux.read)) + IF p.stream = "video" THEN 1 ELSE 0
    BY <2>1, <2>2, VideoTypes, FirstGrows
  <2> DEFINE n == IF p.stream = "video" THEN 1 ELSE 0
  <2>6. n \in Int /\ Holds("video")' = Holds("video") + n
    BY <2>3, <2>4
  <2>7. Cardinality(First(media, "video", demux'.read)) =
           Cardinality(First(media, "video", demux.read)) + n
    BY <2>5
  <2>8. /\ given'["video"] = given["video"] + 0
        /\ Len(worker'["video"].codec) = Len(worker["video"].codec) + 0
        /\ Len(queue'["video"]) = Len(queue["video"]) + 0
    BY <2>1, VideoTypes
  <2> HIDE DEF n, p
  <2>9. 0 + 0 + 0 + n = n
    BY <2>6
  <2> QED BY <1>0, <1>1, <2>1, <2>6, <2>7, <2>8, <2>9, VideoMoves
<1> QED BY <1>2, <1>3, <1>4, <1>5, <1>7, <1>8, <1>9, <1>10, <1>11, <1>12, EveryStep

-------------------------------------------------------------------------------
(* The audio: AudioAccounted is kept.                                           *)

(* What is in a sequence whose head is taken, or that is appended to. *)
LEMMA TailHolds ==
    ASSUME NEW T, NEW q \in Seq(T), q # <<>>
    PROVE  /\ \A j \in DOMAIN q : q[j] = Head(q) \/ \E k \in DOMAIN Tail(q) : Tail(q)[k] = q[j]
           /\ \A k \in DOMAIN Tail(q) : \E j \in DOMAIN q : q[j] = Tail(q)[k]
           /\ \E j \in DOMAIN q : q[j] = Head(q)
<1>1. /\ Len(q) \in Nat /\ Len(q) > 0 /\ DOMAIN q = 1 .. Len(q) /\ Head(q) = q[1]
      /\ DOMAIN Tail(q) = 1 .. Len(q) - 1
      /\ \A k \in 1 .. Len(q) - 1 : Tail(q)[k] = q[k + 1]
  OBVIOUS
<1>2. ASSUME NEW j \in DOMAIN q, j # 1
      PROVE  \E k \in DOMAIN Tail(q) : Tail(q)[k] = q[j]
  <2>1. j - 1 \in 1 .. Len(q) - 1 /\ (j - 1) + 1 = j
    BY <1>1, <1>2
  <2> QED BY <1>1, <2>1
<1>3. ASSUME NEW k \in DOMAIN Tail(q) PROVE \E j \in DOMAIN q : q[j] = Tail(q)[k]
  <2>1. k + 1 \in 1 .. Len(q) /\ k \in 1 .. Len(q) - 1
    BY <1>1, <1>3
  <2> QED BY <1>1, <2>1
<1>4. 1 \in DOMAIN q
  BY <1>1
<1> QED BY <1>1, <1>2, <1>3, <1>4

(* What is in a sequence that is appended to.                                   *)
LEMMA AppendHolds ==
    ASSUME NEW T, NEW q \in Seq(T), NEW x
    PROVE  /\ \A j \in DOMAIN q : \E k \in DOMAIN Append(q, x) : Append(q, x)[k] = q[j]
           /\ \A k \in DOMAIN Append(q, x) : Append(q, x)[k] = x \/ \E j \in DOMAIN q : q[j] = Append(q, x)[k]
           /\ \E k \in DOMAIN Append(q, x) : Append(q, x)[k] = x
<1>1. /\ Len(q) \in Nat /\ DOMAIN q = 1 .. Len(q)
      /\ DOMAIN Append(q, x) = 1 .. Len(q) + 1
      /\ Append(q, x)[Len(q) + 1] = x
      /\ \A j \in 1 .. Len(q) : Append(q, x)[j] = q[j]
  OBVIOUS
<1>2. \A j \in 1 .. Len(q) : j \in 1 .. Len(q) + 1
  BY <1>1
<1>3. \A k \in 1 .. Len(q) + 1 : k \in 1 .. Len(q) \/ k = Len(q) + 1
  BY <1>1
<1>4. Len(q) + 1 \in 1 .. Len(q) + 1
  BY <1>1
<1> QED BY <1>1, <1>2, <1>3, <1>4

(* The types of what AudioAccounted relates.                                    *)
LEMMA AudioTypes ==
    ASSUME Types
    PROVE  /\ media \in Media /\ media.start \in Nat /\ media.audioStart \in Int
           /\ SoundEnd(media) \in Nat /\ due \in Nat /\ given["audio"] \in Nat
           /\ Len(media.packets) \in Nat /\ demux.read \in 0 .. Len(media.packets)
           /\ worker["audio"].codec \in Seq(Nat) /\ queue["audio"] \in Seq(Packet)
           /\ \A j \in DOMAIN worker["audio"].codec : worker["audio"].codec[j] \in Nat
           /\ \A i \in Of(media, "audio") : media.packets[i].at \in Nat
<1>1. media \in Media
  BY ScalarTypes
<1>2. SoundEnd(media) \in Nat /\ Len(media.packets) \in Nat
  BY <1>1, SoundEnds, MediumTypes
<1>3. worker["audio"].codec \in Seq(Nat) /\ queue["audio"] \in Seq(Packet)
  BY RecordTypes, QueueTypes DEF Streams
<1>4. demux.read \in 0 .. Len(media.packets)
  BY DEF Types, TypeOK
<1>5. \A i \in Of(media, "audio") : media.packets[i].at \in Nat
  BY <1>1, MediumTypes
<1>6. \A j \in DOMAIN worker["audio"].codec : worker["audio"].codec[j] \in Nat
  BY <1>3
<1> QED BY <1>1, <1>2, <1>3, <1>4, <1>5, <1>6, ScalarTypes

(* What is to be shown of a step: that the published audio never runs back, that *)
(* what was under way is still, and that a packet read is.                      *)
LEMMA AudioGoesOn ==
    ASSUME Types, AudioAccounted, media' = media, due' \in Nat, due <= due', Paced',
           \A t \in Nat : UnderWay(t) => t < due' \/ UnderWay(t)',
           \A i \in First(media, "audio", demux'.read) :
              i \in First(media, "audio", demux.read) \/ UnderWay(media.packets[i].at)',
           Bounded', Led'
    PROVE  AudioAccounted'
<1>1. ASSUME NEW i \in First(media, "audio", demux'.read)
      PROVE  media.packets[i].at < due' \/ UnderWay(media.packets[i].at)'
  <2>1. media.packets[i].at \in Nat /\ due \in Nat
    BY AudioTypes DEF First
  <2>2. CASE i \in First(media, "audio", demux.read)
    <3>1. media.packets[i].at < due \/ UnderWay(media.packets[i].at)
      BY <2>2 DEF AudioAccounted, Heard
    <3>2. media.packets[i].at < due => media.packets[i].at < due'
      BY <2>1
    <3> QED BY <2>1, <3>1, <3>2
  <2> QED BY <1>1, <2>2
<1>2. Heard'
  BY <1>1 DEF Heard
<1> QED BY <1>2 DEF AudioAccounted

(* A step that touches nothing of the audio. *)
LEMMA AudioStays ==
    ASSUME Types, AudioAccounted, media' = media, due' = due,
           demux'.read = demux.read, demux'.held = demux.held,
           queue'["audio"] = queue["audio"], given'["audio"] = given["audio"],
           worker'["audio"].codec = worker["audio"].codec, Led'
    PROVE  AudioAccounted'
<1>1. \A t : UnderWay(t) => UnderWay(t)'
  BY DEF UnderWay
<1>2. Paced' /\ Bounded'
  BY DEF AudioAccounted, Paced, Bounded, Sounds
<1>3. due \in Nat /\ due <= due
  BY AudioTypes
<1> QED BY <1>1, <1>2, <1>3, AudioGoesOn

(* A worker that does not leave its priming leaves Led as it is.                *)
LEMMA LedStays ==
    ASSUME Types, AudioAccounted, media' = media, due' = due,
           worker'["audio"].at \in {worker["audio"].at, "decode"},
           worker["audio"].at \in {"pop", "decode"} \/ worker'["audio"].at = worker["audio"].at,
           worker'["audio"].outcome = worker["audio"].outcome
    PROVE  Led'
BY DEF AudioAccounted, Led, HasAudio, Of

(* A packet goes into the codec. *)
LEMMA AudioTakes ==
    ASSUME Types, Stages, AudioAccounted, Taking("audio")
    PROVE  AudioAccounted'
<1> DEFINE q == queue["audio"]
           c == worker["audio"].codec
           x == Head(q).at
<1>1. /\ q \in Seq(Packet) /\ q # <<>> /\ c \in Seq(Nat) /\ x \in Nat
      /\ queue'["audio"] = Tail(q)
  BY AudioTypes, Taken, QueueTypes DEF Streams
<1>2. /\ UNCHANGED <<media, demux, given, due>>
      /\ worker'["audio"].codec = Append(c, x) /\ worker'["audio"].at = "decode"
      /\ worker["audio"].at = "pop" /\ worker'["audio"].outcome = worker["audio"].outcome
  BY DEF Taking, Working, Becomes, output
<1>3. Paced' /\ due \in Nat /\ due <= due
  BY <1>2, AudioTypes DEF AudioAccounted, Paced
<1>4. Led'
  BY <1>2, LedStays
<1>5. /\ \A j \in DOMAIN q : q[j] = Head(q) \/ \E k \in DOMAIN Tail(q) : Tail(q)[k] = q[j]
      /\ \A k \in DOMAIN Tail(q) : \E j \in DOMAIN q : q[j] = Tail(q)[k]
      /\ \E j \in DOMAIN q : q[j] = Head(q)
  BY <1>1, TailHolds
<1>6. /\ \A j \in DOMAIN c : \E k \in DOMAIN Append(c, x) : Append(c, x)[k] = c[j]
      /\ \A k \in DOMAIN Append(c, x) : Append(c, x)[k] = x \/ \E j \in DOMAIN c : c[j] = Append(c, x)[k]
      /\ \E k \in DOMAIN Append(c, x) : Append(c, x)[k] = x
  <2>1. c \in Seq(Nat) /\ x \in Nat
    BY <1>1
  <2> DEFINE d == Append(c, x)
  <2> HIDE DEF c, x
  <2>2. d = Append(c, x)
    OBVIOUS
  <2> HIDE DEF d
  <2>3. /\ \A j \in DOMAIN c : \E k \in DOMAIN d : d[k] = c[j]
        /\ \A k \in DOMAIN d : d[k] = x \/ \E j \in DOMAIN c : c[j] = d[k]
        /\ \E k \in DOMAIN d : d[k] = x
    BY <2>1, <2>2, AppendHolds
  <2> QED BY <2>3 DEF d
<1> DEFINE r == Append(c, x)
           w == Tail(q)
<1>7. \A t : UnderWay(t) <=> \/ \E j \in DOMAIN c : c[j] = t
                             \/ \E j \in DOMAIN q : q[j].at = t
                             \/ demux.held.stream = "audio" /\ demux.held.at = t
  BY DEF UnderWay
<1>8. \A t : UnderWay(t)' <=> \/ \E j \in DOMAIN r : r[j] = t
                              \/ \E j \in DOMAIN w : w[j].at = t
                              \/ demux.held.stream = "audio" /\ demux.held.at = t
  BY <1>1, <1>2 DEF UnderWay
<1>9. /\ \A j \in DOMAIN c : Sounds(c[j])
      /\ \A j \in DOMAIN q : Sounds(q[j].at)
      /\ demux.held.stream = "audio" => Sounds(demux.held.at)
  BY DEF AudioAccounted, Bounded
<1>10. Bounded' <=> /\ \A j \in DOMAIN r : Sounds(r[j])
                    /\ \A j \in DOMAIN w : Sounds(w[j].at)
                    /\ demux.held.stream = "audio" => Sounds(demux.held.at)
  BY <1>1, <1>2 DEF Bounded, Sounds
<1> HIDE DEF q, c, r, w
<1>11. ASSUME NEW t, UnderWay(t) PROVE UnderWay(t)'
  <2>1. CASE \E j \in DOMAIN c : c[j] = t
    BY <2>1, <1>6, <1>8 DEF r
  <2>2. CASE \E j \in DOMAIN q : q[j].at = t
    <3>1. PICK j \in DOMAIN q : q[j].at = t
      BY <2>2
    <3>2. CASE q[j] = Head(q)
      <4>1. t = x
        BY <3>1, <3>2
      <4> QED BY <4>1, <1>6, <1>8 DEF r
    <3>3. CASE q[j] # Head(q)
      BY <3>1, <3>3, <1>5, <1>8 DEF w
    <3> QED BY <3>2, <3>3
  <2>3. CASE demux.held.stream = "audio" /\ demux.held.at = t
    BY <2>3, <1>8
  <2> QED BY <1>7, <1>11, <2>1, <2>2, <2>3
<1>12. Bounded'
  <2>1. Sounds(x)
    BY <1>5, <1>9
  <2>2. \A j \in DOMAIN r : Sounds(r[j])
    BY <1>6, <1>9, <2>1 DEF r
  <2>3. \A j \in DOMAIN w : Sounds(w[j].at)
    BY <1>5, <1>9 DEF w
  <2> QED BY <1>9, <1>10, <2>2, <2>3
<1>13. \A i \in First(media, "audio", demux'.read) : i \in First(media, "audio", demux.read)
  BY <1>2
<1> QED BY <1>2, <1>3, <1>4, <1>11, <1>12, <1>13, AudioGoesOn

(* The head of the codec is played or trimmed. *)
LEMMA AudioSpends ==
    ASSUME Types, Stages, AudioAccounted,
           media' = media, demux' = demux, queue' = queue,
           worker["audio"].codec # <<>>,
           worker'["audio"].codec = Tail(worker["audio"].codec),
           due' \in Nat, due <= due', Head(worker["audio"].codec) < due', Paced', Led'
    PROVE  AudioAccounted'
<1> DEFINE c == worker["audio"].codec
           r == Tail(c)
<1>1. c \in Seq(Nat) /\ c # <<>>
  BY AudioTypes
<1>2. /\ \A j \in DOMAIN c : c[j] = Head(c) \/ \E k \in DOMAIN Tail(c) : Tail(c)[k] = c[j]
      /\ \A k \in DOMAIN Tail(c) : \E j \in DOMAIN c : c[j] = Tail(c)[k]
  BY <1>1, TailHolds
<1>3. \A t : UnderWay(t) <=> \/ \E j \in DOMAIN c : c[j] = t
                             \/ \E j \in DOMAIN queue["audio"] : queue["audio"][j].at = t
                             \/ demux.held.stream = "audio" /\ demux.held.at = t
  BY DEF UnderWay
<1>4. \A t : UnderWay(t)' <=> \/ \E j \in DOMAIN r : r[j] = t
                              \/ \E j \in DOMAIN queue["audio"] : queue["audio"][j].at = t
                              \/ demux.held.stream = "audio" /\ demux.held.at = t
  BY DEF UnderWay
<1>5. \A j \in DOMAIN c : Sounds(c[j])
  BY DEF AudioAccounted, Bounded
<1>6. (\A j \in DOMAIN r : Sounds(r[j])) => Bounded'
  BY DEF AudioAccounted, Bounded, Sounds
<1>7. Head(c) < due'
  OBVIOUS
<1> HIDE DEF c
<1>8. ASSUME NEW t \in Nat, UnderWay(t) PROVE t < due' \/ UnderWay(t)'
  BY <1>2, <1>3, <1>4, <1>7, <1>8
<1>9. Bounded'
  BY <1>2, <1>5, <1>6
<1>10. \A i \in First(media, "audio", demux'.read) : i \in First(media, "audio", demux.read)
  OBVIOUS
<1> QED BY <1>8, <1>9, <1>10, AudioGoesOn

(* A block of silence or sound is submitted: the published audio goes on by     *)
(* one, and never past the end of what sounds.                                  *)
LEMMA AudioSounds ==
    ASSUME Types, Stages, AudioAccounted, NEW codec \in Seq(Nat), Sounding(codec)
    PROVE  AudioAccounted'
<1>1. /\ UNCHANGED <<media, demux, queue>> /\ due' = due + 1
      /\ worker'["audio"].codec = codec /\ worker'["audio"].at = worker["audio"].at
      /\ worker'["audio"].outcome = worker["audio"].outcome
  BY DEF Sounding, Working, Becomes, router
<1>2. due \in Nat /\ media.start \in Nat /\ SoundEnd(media) \in Nat /\ media \in Media
      /\ media.audioStart \in Int /\ given["audio"] \in Nat
  BY AudioTypes
<1>3. given'["audio"] = given["audio"] + 1
  BY DEF Sounding, Types, TypeOK, Playable
<1>4. due' \in Nat /\ due <= due'
  BY <1>1, <1>2
<1>5. due + 1 <= SoundEnd(media)
  <2>1. CASE worker["audio"].at = "prime" /\ due < media.audioStart
    <3>1. HasAudio
      BY <2>1 DEF AudioAccounted, Led
    <3>2. media.audioStart <= SoundEnd(media)
      BY <1>2, <3>1, SoundEnds DEF HasAudio
    <3> QED BY <1>2, <2>1, <3>2
  <2>2. CASE worker["audio"].codec # <<>> /\ due <= Head(worker["audio"].codec)
    <3>1. worker["audio"].codec \in Seq(Nat)
      BY AudioTypes
    <3>2. /\ 1 \in DOMAIN worker["audio"].codec
          /\ Head(worker["audio"].codec) = worker["audio"].codec[1]
          /\ Head(worker["audio"].codec) \in Nat
      BY <2>2, <3>1
    <3>3. Head(worker["audio"].codec) + 1 <= SoundEnd(media)
      BY <3>2 DEF AudioAccounted, Bounded, Sounds
    <3> QED BY <1>2, <2>2, <3>2, <3>3
  <2>3. \/ worker["audio"].at = "prime" /\ due < media.audioStart
        \/ worker["audio"].codec # <<>> /\ due < Head(worker["audio"].codec)
        \/ worker["audio"].codec # <<>> /\ due = Head(worker["audio"].codec)
    BY DEF Sounding
  <2>4. due = Head(worker["audio"].codec) => due <= Head(worker["audio"].codec)
    BY <1>2
  <2>5. worker["audio"].codec # <<>> => Head(worker["audio"].codec) \in Nat
    BY AudioTypes
  <2>6. worker["audio"].codec # <<>> /\ due < Head(worker["audio"].codec)
           => due <= Head(worker["audio"].codec)
    BY <1>2, <2>5
  <2> QED BY <2>1, <2>2, <2>3, <2>4, <2>6
<1>6. Paced'
  <2>1. given["audio"] = due - media.start /\ media.start <= due
    BY DEF AudioAccounted, Paced
  <2>2. given'["audio"] = due' - media.start /\ media.start <= due' /\ due' <= SoundEnd(media)
    BY <1>1, <1>2, <1>3, <1>5, <2>1
  <2> QED BY <1>1, <2>2 DEF Paced
<1>7. Led'
  <2>1. media.audioStart <= due => media.audioStart <= due'
    BY <1>1, <1>2
  <2> QED BY <1>1, <2>1 DEF AudioAccounted, Led, HasAudio, Of
<1>8. CASE codec = worker["audio"].codec
  <2>1. \A t : UnderWay(t) => UnderWay(t)'
    BY <1>1, <1>8 DEF UnderWay
  <2>2. Bounded'
    BY <1>1, <1>8 DEF AudioAccounted, Bounded, Sounds
  <2>3. \A i \in First(media, "audio", demux'.read) : i \in First(media, "audio", demux.read)
    BY <1>1
  <2> QED BY <1>1, <1>4, <1>6, <1>7, <2>1, <2>2, <2>3, AudioGoesOn
<1>9. CASE /\ worker["audio"].codec # <<>> /\ due = Head(worker["audio"].codec)
           /\ codec = Tail(worker["audio"].codec)
  <2>1. Head(worker["audio"].codec) < due'
    BY <1>1, <1>2, <1>9
  <2> QED BY <1>1, <1>4, <1>6, <1>7, <1>9, <2>1, AudioSpends
<1> QED BY <1>8, <1>9 DEF Sounding

(* A packet before the seek target is dropped.                                  *)
LEMMA AudioTrims ==
    ASSUME Types, Stages, AudioAccounted, Trimming
    PROVE  AudioAccounted'
<1>1. /\ UNCHANGED <<media, demux, queue, due, given>>
      /\ worker["audio"].codec # <<>> /\ worker["audio"].at = "decode"
      /\ worker'["audio"].codec = Tail(worker["audio"].codec)
      /\ worker'["audio"].at = "decode" /\ worker'["audio"].outcome = worker["audio"].outcome
      /\ Head(worker["audio"].codec) < media.start
  BY DEF Trimming, Working, Becomes, router, output
<1>2. due \in Nat /\ media.start \in Nat /\ Head(worker["audio"].codec) \in Nat
  BY <1>1, AudioTypes
<1>3. media.start <= due
  BY DEF AudioAccounted, Paced
<1>4. due' \in Nat /\ due <= due' /\ Head(worker["audio"].codec) < due'
  BY <1>1, <1>2, <1>3
<1>5. Paced'
  BY <1>1 DEF AudioAccounted, Paced
<1>6. Led'
  BY <1>1, LedStays
<1> QED BY <1>1, <1>4, <1>5, <1>6, AudioSpends

(* A packet is queued. *)
LEMMA AudioPushed ==
    ASSUME Types, Stages, AudioAccounted, PushPacket
    PROVE  AudioAccounted'
<1>1. /\ UNCHANGED <<media, given, worker, due>> /\ demux' = [demux EXCEPT !.held = NoPacket]
  BY DEF PushPacket, DemuxFrame, output
<1>2. /\ demux'.read = demux.read /\ demux'.held = NoPacket /\ demux'.held.stream = "none"
  BY <1>1 DEF Types, TypeOK, NoPacket
<1>3. PICK s \in Streams, p \in Packet :
         /\ p = demux.held /\ s = p.stream
         /\ queue'[s] = Append(queue[s], p)
         /\ \A t \in Streams \ {s} : queue'[t] = queue[t]
  BY Pushed
<1>4. Paced' /\ Led' /\ due' \in Nat /\ due <= due'
  BY <1>1, AudioTypes DEF AudioAccounted, Paced, Led, HasAudio, Of
<1>5. \A i \in First(media, "audio", demux'.read) : i \in First(media, "audio", demux.read)
  BY <1>2
<1> DEFINE q == queue["audio"]
           r == queue'["audio"]
<1>6. \A t : UnderWay(t) <=> \/ \E j \in DOMAIN worker["audio"].codec : worker["audio"].codec[j] = t
                             \/ \E j \in DOMAIN q : q[j].at = t
                             \/ demux.held.stream = "audio" /\ demux.held.at = t
  BY DEF UnderWay
<1>7. \A t : UnderWay(t)' <=> \/ \E j \in DOMAIN worker["audio"].codec : worker["audio"].codec[j] = t
                              \/ \E j \in DOMAIN r : r[j].at = t
  BY <1>1, <1>2 DEF UnderWay
<1>8. /\ \A j \in DOMAIN worker["audio"].codec : Sounds(worker["audio"].codec[j])
      /\ \A j \in DOMAIN q : Sounds(q[j].at)
      /\ demux.held.stream = "audio" => Sounds(demux.held.at)
  BY DEF AudioAccounted, Bounded
<1>9. Bounded' <=> /\ \A j \in DOMAIN worker["audio"].codec : Sounds(worker["audio"].codec[j])
                   /\ \A j \in DOMAIN r : Sounds(r[j].at)
  BY <1>1, <1>2 DEF Bounded, Sounds
<1>10. CASE s = "audio"
  <2>1. q \in Seq(Packet) /\ r = Append(q, p) /\ demux.held = p /\ demux.held.stream = "audio"
    BY <1>3, <1>10, AudioTypes
  <2> HIDE DEF q, r
  <2>2. /\ \A j \in DOMAIN q : \E k \in DOMAIN r : r[k] = q[j]
        /\ \A k \in DOMAIN r : r[k] = p \/ \E j \in DOMAIN q : q[j] = r[k]
        /\ \E k \in DOMAIN r : r[k] = p
    BY <2>1, AppendHolds
  <2>3. ASSUME NEW t, UnderWay(t) PROVE UnderWay(t)'
    <3>1. CASE \E j \in DOMAIN q : q[j].at = t
      <4>1. PICK j \in DOMAIN q : q[j].at = t
        BY <3>1
      <4>2. PICK k \in DOMAIN r : r[k] = q[j]
        BY <2>2
      <4> QED BY <1>7, <4>1, <4>2
    <3>2. CASE demux.held.at = t
      BY <1>7, <2>1, <2>2, <3>2
    <3>3. CASE \E j \in DOMAIN worker["audio"].codec : worker["audio"].codec[j] = t
      BY <1>7, <3>3
    <3> QED BY <1>6, <2>3, <3>1, <3>2, <3>3
  <2>4. Bounded'
    <3>1. ASSUME NEW k \in DOMAIN r PROVE Sounds(r[k].at)
      <4>1. CASE r[k] = p
        BY <1>8, <2>1, <4>1
      <4>2. CASE \E j \in DOMAIN q : q[j] = r[k]
        BY <1>8, <4>2
      <4> QED BY <2>2, <4>1, <4>2
    <3> QED BY <1>8, <1>9, <3>1
  <2> QED BY <1>1, <1>4, <1>5, <2>3, <2>4, AudioGoesOn
<1>11. CASE s # "audio"
  <2>1. r = q /\ demux.held.stream # "audio"
    BY <1>3, <1>11 DEF Streams
  <2>2. \A t : UnderWay(t) => UnderWay(t)'
    BY <1>6, <1>7, <2>1
  <2>3. Bounded'
    BY <1>8, <1>9, <2>1
  <2> QED BY <1>1, <1>4, <1>5, <2>2, <2>3, AudioGoesOn
<1> QED BY <1>10, <1>11

(* A packet is read: the audio worker is there to take it. *)
LEMMA AudioRead ==
    ASSUME Types, Stages, AudioAccounted, ReadPacket
    PROVE  AudioAccounted'
<1> DEFINE n == demux.read + 1
           p == media.packets[n]
<1>1. /\ UNCHANGED <<media, given, worker, queue, due>>
      /\ demux' = [demux EXCEPT !.read = @ + 1, !.held = Destined(p)]
      /\ demux.held = NoPacket /\ demux.read < Len(media.packets) /\ phase = "running"
  BY DEF ReadPacket, Reading, Demuxing, DemuxFrame, output, router
<1>2. demux'.read = n /\ demux'.held = Destined(p)
  BY <1>1 DEF Types, TypeOK
<1>3. demux.held.stream = "none"
  BY <1>1 DEF NoPacket
<1>4. Paced' /\ Led' /\ due' \in Nat /\ due <= due'
  BY <1>1, AudioTypes DEF AudioAccounted, Paced, Led, HasAudio, Of
<1>5. media \in Media /\ Len(media.packets) \in Nat /\ demux.read \in 0 .. Len(media.packets)
  BY AudioTypes
<1>6. n \in 1 .. Len(media.packets) /\ DOMAIN media.packets = 1 .. Len(media.packets)
  BY <1>1, <1>5, MediumTypes
<1> HIDE DEF p
<1>7. p.stream = "audio" => demux'.held = p /\ n \in Of(media, "audio")
  <2>1. p.stream = "audio" => n \in Of(media, "audio")
    BY <1>6 DEF p, Of
  <2>2. p.stream = "audio" => HasAudio
    BY <2>1 DEF HasAudio
  <2>3. p.stream = "audio" => worker["audio"].at # "absent"
    BY <1>1, <2>2 DEF Stages
  <2> QED BY <1>2, <2>1, <2>3 DEF Destined
<1>8. demux'.held = p \/ demux'.held.stream = "none"
  BY <1>2 DEF Destined, NoPacket
<1>9. p.stream = "audio" => Sounds(p.at)
  BY <1>5, <1>7, SoundEnds DEF Sounds, p
<1>10. Bounded'
  <2>1. demux'.held.stream = "audio" => Sounds(demux'.held.at)
    BY <1>8, <1>9
  <2> QED BY <1>1, <2>1 DEF AudioAccounted, Bounded, Sounds
<1>11. \A t : UnderWay(t) => UnderWay(t)'
  BY <1>1, <1>3 DEF UnderWay
<1>12. ASSUME NEW i \in First(media, "audio", demux'.read)
       PROVE  i \in First(media, "audio", demux.read) \/ UnderWay(media.packets[i].at)'
  <2>1. i \in Of(media, "audio") /\ i <= n /\ i \in 1 .. Len(media.packets)
    BY <1>2, <1>5, <1>12, MediumTypes DEF First
  <2>2. CASE i = n
    <3>1. p.stream = "audio"
      BY <2>1, <2>2 DEF Of, p
    <3>2. demux'.held = p /\ media.packets[i].at = p.at
      BY <1>7, <2>2, <3>1 DEF p
    <3>3. demux'.held.stream = "audio" /\ demux'.held.at = media.packets[i].at
      BY <3>1, <3>2
    <3> QED BY <1>1, <3>3 DEF UnderWay
  <2>3. CASE i # n
    <3>1. i <= demux.read
      BY <1>5, <2>1, <2>3
    <3> QED BY <2>1, <3>1 DEF First
  <2> QED BY <2>2, <2>3
<1> QED BY <1>1, <1>4, <1>10, <1>11, <1>12, AudioGoesOn

(* Whatever the step, every audio packet that was read sounds before due or is  *)
(* under way.                                                                   *)
LEMMA AudioAccountedStep ==
    ASSUME Types, Stages, AudioAccounted, [Next]_vars
    PROVE  AudioAccounted'
<1>0. "video" \in Streams /\ "audio" \in Streams /\ "subtitle" \in Streams
  BY DEF Streams
<1>1. ASSUME Playing \/ Stop \/ (\E s \in Playable : CloseSink(s)) \/ OpenCancelled \/ OpenFails
               \/ Join
      PROVE  AudioAccounted'
  <2>1. UNCHANGED <<media, demux, queue, given, worker, due>>
    BY <1>1 DEF Playing, Stop, CloseSink, OpenCancelled, OpenFails, Join, Ended, pipe, router,
           output
  <2>2. Led'
    BY <2>1, LedStays
  <2> QED BY <2>1, <2>2, AudioStays
<1>2. ASSUME ReadEnds \/ ReadFails \/ ReadStops \/ PushRefused PROVE AudioAccounted'
  <2>1. UNCHANGED <<media, queue, given, worker, due>> /\ demux' = [demux EXCEPT !.on = FALSE]
    BY <1>2 DEF ReadEnds, ReadFails, ReadStops, PushRefused, DemuxFrame, router, output
  <2>2. demux'.read = demux.read /\ demux'.held = demux.held
    BY <2>1 DEF Types, TypeOK
  <2>3. Led'
    BY <2>1, LedStays
  <2> QED BY <2>1, <2>2, <2>3, AudioStays
<1>3. ASSUME Opening PROVE AudioAccounted'
  <2>1. /\ UNCHANGED <<media, queue, given, due>> /\ demux' = [demux EXCEPT !.on = TRUE]
        /\ worker'["audio"].codec = <<>> /\ worker["audio"].codec = <<>>
        /\ worker'["audio"].outcome = "none"
        /\ worker'["audio"].at = IF HasAudio THEN "prime" ELSE "absent"
    BY <1>0, <1>3 DEF Opening, Idle, router, output
  <2>2. demux'.read = demux.read /\ demux'.held = demux.held
    BY <2>1 DEF Types, TypeOK
  <2>3. Led'
    BY <2>1 DEF Led, HasAudio, Of
  <2> QED BY <2>1, <2>2, <2>3, AudioStays
<1>4. ASSUME NEW s \in Streams, NEW o \in WorkerOutcomes, Returning(s, o) PROVE AudioAccounted'
  <2>1. UNCHANGED <<media, demux, queue, given, due>>
    BY <1>4 DEF Returning, router, output
  <2>2. worker'["audio"].codec = worker["audio"].codec
    BY <1>0, <1>4 DEF Returning, Becomes
  <2>3. CASE s = "audio"
    <3>1. worker'["audio"].at = "done" /\ worker'["audio"].outcome = o
      BY <1>4, <2>3 DEF Returning, Becomes
    <3>2. o = "ended" => media.audioStart <= due
      BY <1>4, <2>3 DEF Returning, AudioAccounted, Led
    <3>3. Led'
      BY <2>1, <3>1, <3>2 DEF Led
    <3> QED BY <2>1, <2>2, <3>3, AudioStays
  <2>4. CASE s # "audio"
    <3>1. worker'["audio"] = worker["audio"]
      BY <1>0, <1>4, <2>4 DEF Returning, Becomes
    <3>2. Led'
      BY <2>1, <3>1, LedStays
    <3> QED BY <2>1, <2>2, <3>2, AudioStays
  <2> QED BY <2>3, <2>4
<1>5. ASSUME NEW s \in Streams, NEW at, NEW codec, NEW flushing, Working(s, at, codec, flushing),
             UNCHANGED <<queue, due>>, given'["audio"] = given["audio"],
             s = "audio" => codec = worker["audio"].codec /\ worker["audio"].at \in {"pop", "decode"}
                               /\ at \in {"pop", "decode"}
      PROVE  AudioAccounted'
  <2>1. UNCHANGED <<media, demux>>
    BY <1>5 DEF Working
  <2>2. /\ worker'["audio"].codec = worker["audio"].codec
        /\ worker'["audio"].outcome = worker["audio"].outcome
    BY <1>0, <1>5 DEF Working, Becomes
  <2>3. Led'
    <3>1. CASE s = "audio"
      <4>1. worker'["audio"].at \in {"pop", "decode"}
        BY <1>5, <3>1 DEF Working, Becomes
      <4> QED BY <1>5, <2>1, <3>1, <4>1 DEF AudioAccounted, Led, HasAudio, Of
    <3>2. CASE s # "audio"
      <4>1. worker'["audio"] = worker["audio"]
        BY <1>0, <1>5, <3>2 DEF Working, Becomes
      <4> QED BY <1>5, <2>1, <4>1, LedStays
    <3> QED BY <3>1, <3>2
  <2> QED BY <1>5, <2>1, <2>2, <2>3, AudioStays
<1>6. ASSUME NEW s \in Playable, Flushing(s) \/ Asking(s) PROVE AudioAccounted'
  <2>1. s \in Streams
    BY DEF Playable, Streams
  <2> QED BY <1>5, <1>6, <2>1 DEF Flushing, Asking, router, output
<1>7. ASSUME Showing PROVE AudioAccounted'
  <2>1. UNCHANGED <<queue, due>> /\ given'["audio"] = given["audio"]
    BY <1>7 DEF Showing, router, Types, TypeOK, Playable
  <2> QED BY <1>0, <1>5, <1>7, <2>1 DEF Showing
<1>8. ASSUME Subtitling PROVE AudioAccounted'
  BY <1>0, <1>5, <1>8 DEF Subtitling, router, output
<1>9. ASSUME Priming PROVE AudioAccounted'
  <2>1. /\ UNCHANGED <<media, demux, queue, given, due>>
        /\ worker'["audio"].codec = worker["audio"].codec
        /\ worker'["audio"].at = "pop" /\ worker["audio"].at = "prime"
        /\ media.audioStart <= due
    BY <1>9 DEF Priming, Working, Becomes, router, output
  <2>2. Led'
    BY <2>1 DEF AudioAccounted, Led, HasAudio, Of
  <2> QED BY <2>1, <2>2, AudioStays
<1>10. ASSUME NEW s \in Streams, s # "audio", Taking(s) PROVE AudioAccounted'
  <2>1. UNCHANGED <<media, demux, given, due>>
    BY <1>10 DEF Taking, Working, output
  <2>2. queue'["audio"] = queue["audio"]
    BY <1>0, <1>10, Taken
  <2>3. worker'["audio"] = worker["audio"]
    BY <1>0, <1>10 DEF Taking, Working, Becomes
  <2>4. Led'
    BY <2>1, <2>3, LedStays
  <2> QED BY <2>1, <2>2, <2>3, <2>4, AudioStays
<1> QED BY <1>1, <1>2, <1>3, <1>4, <1>6, <1>7, <1>8, <1>9, <1>10, EveryStep,
           AudioTakes, AudioSounds, AudioTrims, AudioPushed, AudioRead

-------------------------------------------------------------------------------
(* The invariant.                                                               *)

(* The operation starts in the invariant.                                       *)
LEMMA InitHolds == Init => IInv
<1> SUFFICES ASSUME Init PROVE IInv
  OBVIOUS
<1>1. media \in Media /\ media.start \in Nat /\ Len(media.packets) \in Nat
  BY MediumTypes DEF Init
<1>2. /\ Idle \in WorkerRecord /\ Idle.at = "absent" /\ Idle.codec = <<>> /\ ~Idle.flushing
      /\ Idle.outcome = "none"
  BY DEF Idle, WorkerRecord, Places, WorkerOutcomes
<1>3. \A s \in Streams : worker[s] = Idle /\ queue[s] = <<>>
  BY DEF Init
<1>4. WorkerTypes
  <2>1. worker \in [Streams -> WorkerRecord]
    BY <1>2 DEF Init
  <2>2. Len(<<>>) = 0
    OBVIOUS
  <2>3. \A s \in Streams : CodecOf(s)
    BY <1>2, <1>3, <2>2 DEF CodecOf
  <2> QED BY <2>1, <2>3 DEF WorkerTypes
<1>5. Values
  <2>1. 0 \in 0 .. Len(media.packets)
    BY <1>1
  <2>2. demux \in [on : BOOLEAN, read : 0 .. Len(media.packets), held : Packet \cup {NoPacket}]
    BY <2>1 DEF Init
  <2>3. queue \in [Streams -> Seq(Packet)]
    BY DEF Init
  <2>4. 0 \in 0 .. EventLimit /\ 0 \in 0 .. MaxTroubles
    BY BudgetAssumption
  <2>5. given \in [Playable -> Nat] /\ due \in Nat /\ clock \in Nat
    BY <1>1 DEF Init
  <2>6. frames \in Seq(Nat) /\ blocks \in Seq(Nat)
    BY DEF Init
  <2> QED BY <1>1, <2>2, <2>3, <2>4, <2>5, <2>6 DEF Init, Values, Terminals
<1>6. Types
  BY <1>4, <1>5, TypesAre
<1>7. Within
  <2>1. Len(<<>>) = 0
    OBVIOUS
  <2>2. /\ queue["video"] = <<>> /\ queue["audio"] = <<>> /\ queue["subtitle"] = <<>>
        /\ queued.packets = 0 /\ queued.bytes = 0
    BY <1>3 DEF Init, Streams
  <2>3. PacketLimit \in Nat /\ ByteLimit \in Nat
    BY BudgetAssumption
  <2>4. PacketsIn(queue) = 0
    BY <2>1, <2>2 DEF PacketsIn
  <2> QED BY <2>2, <2>3, <2>4 DEF Within
<1>8. Counted
  <2>1. /\ Totals(queue["video"], 0) /\ Totals(queue["audio"], 0) /\ Totals(queue["subtitle"], 0)
    BY <1>3, TotalsEmpty DEF Streams
  <2>2. queued = [packets |-> 0, bytes |-> 0] /\ queued.bytes = 0 + 0 + 0
    BY DEF Init
  <2>3. queued \in [packets : Nat, bytes : Nat]
    BY <2>2
  <2> QED BY <2>1, <2>2, <2>3 DEF Counted
<1>9. Stages
  BY <1>2, <1>3 DEF Init, Stages
<1>10. Reasons /\ Traces /\ Drains
  <2>1. \A s \in Playable : s \in Streams
    BY DEF Playable, Streams
  <2> QED BY <1>2, <1>3, <2>1 DEF Init, Reasons, Grounds, Traces, Drains, DrainsOf
<1>11. VideoCounted
  <2>1. /\ given["video"] = 0 /\ worker["video"].codec = <<>> /\ queue["video"] = <<>>
        /\ worker["video"].outcome = "none" /\ demux.read = 0 /\ Holds("video") = 0
    BY <1>2, <1>3 DEF Init, Playable, Streams, Holds, NoPacket
  <2>2. 0 \in 0 .. Len(media.packets)
    BY <1>1
  <2>3. Cardinality(First(media, "video", 0)) = 0
    BY <1>1, <2>2, FirstCounted
  <2>4. Len(<<>>) = 0
    OBVIOUS
  <2> QED BY <2>1, <2>3, <2>4 DEF VideoCounted
<1>12. AudioAccounted
  <2>1. /\ given["audio"] = 0 /\ due = media.start /\ demux.read = 0
        /\ worker["audio"].codec = <<>> /\ queue["audio"] = <<>> /\ demux.held.stream = "none"
        /\ worker["audio"].outcome = "none" /\ worker["audio"].at = "absent"
    BY <1>2, <1>3 DEF Init, Playable, Streams, NoPacket
  <2>2. SoundEnd(media) \in Nat /\ media.start <= SoundEnd(media)
    BY <1>1, SoundEnds
  <2>3. First(media, "audio", 0) = {}
    BY <1>1, MediumTypes DEF First
  <2>4. Paced
    BY <1>1, <2>1, <2>2 DEF Paced
  <2> QED BY <2>1, <2>3, <2>4 DEF AudioAccounted, Heard, Bounded, Led
<1> QED BY <1>6, <1>7, <1>8, <1>9, <1>10, <1>11, <1>12 DEF IInv

(* Every step of every thread keeps the invariant.                              *)
LEMMA IInvKept == IInv /\ [Next]_vars => IInv'
<1> SUFFICES ASSUME IInv, [Next]_vars PROVE IInv'
  OBVIOUS
<1>1. Types /\ Within /\ Counted /\ Stages /\ Reasons /\ Traces /\ Drains
      /\ VideoCounted /\ AudioAccounted
  BY DEF IInv
<1>2. Types' /\ Stages' /\ Within' /\ Counted'
  BY <1>1, TypesStep, StagesStep, WithinStep, CountedStep
<1>3. Reasons' /\ Traces' /\ Drains'
  BY <1>1, ReasonsStep, TracesStep, DrainsStep
<1>4. VideoCounted' /\ AudioAccounted'
  BY <1>1, VideoCountedStep, AudioAccountedStep
<1> QED BY <1>2, <1>3, <1>4 DEF IInv

(* The invariant holds throughout one decode operation, for any medium and      *)
(* limits and any interleaving of its threads, its session and its player.      *)
THEOREM OperationInvariance == Spec => []IInv
BY InitHolds, IInvKept, PTL DEF Spec

(* Every part of the operation always has the type the code gives it.           *)
THEOREM TypeCorrect == Spec => []TypeOK
<1>1. IInv => TypeOK
  BY DEF IInv, Types
<1> QED BY <1>1, OperationInvariance, PTL

(* The invariant is a budget that is held.                                      *)
LEMMA WithinBudget == IInv => BudgetHeld
<1> SUFFICES ASSUME IInv PROVE BudgetHeld
  OBVIOUS
<1>1. Types /\ Within /\ Counted
  BY DEF IInv
<1>2. PICK v \in Nat, a \in Nat, b \in Nat :
         /\ Totals(queue["video"], v) /\ Totals(queue["audio"], a) /\ Totals(queue["subtitle"], b)
         /\ queued.bytes = v + a + b
  BY <1>1 DEF Counted
<1>3. Bytes(queue["video"]) = v /\ Bytes(queue["audio"]) = a /\ Bytes(queue["subtitle"]) = b
  BY <1>1, <1>2, TotalsBytes, QueueTypes DEF Streams
<1>4. queued.bytes = Bytes(queue["video"]) + Bytes(queue["audio"]) + Bytes(queue["subtitle"])
  BY <1>2, <1>3
<1>5. TypeOK
  BY <1>1 DEF Types
<1>6. \/ queued.bytes <= ByteLimit
      \/ \E s \in Streams : \E i \in DOMAIN queue[s] : queue[s][i].bytes = queued.bytes
  BY <1>1 DEF Within, Beyond
<1>7. /\ queued.packets = Len(queue["video"]) + Len(queue["audio"]) + Len(queue["subtitle"])
      /\ queued.packets <= PacketLimit
  BY <1>1 DEF Within, PacketsIn
<1> QED BY <1>4, <1>5, <1>6, <1>7 DEF BudgetHeld

(* FfmpegPacketRouter: its counters always tell what the three queues hold,     *)
(* which is within the count, and within max(limit, largest packet) in bytes.   *)
THEOREM BudgetAlwaysHeld == Spec => []BudgetHeld
BY OperationInvariance, WithinBudget, PTL

-------------------------------------------------------------------------------
(* The contract: every step is one of the contract's, or none of its concern.   *)

(* The operation starts as the contract does.                                   *)
LEMMA ContractStarts == Init => Contract!Init
BY DEF Init, Contract!Init, Playable

(* Something happens, and only that. *)
LEMMA Happens ==
    ASSUME Types, answer = "none", UNCHANGED <<media, given, answer>>,
           NEW t \in {"fault", "told", "closed"},
           trouble' \in {trouble, trouble \cup {t}}
    PROVE  Contract!Next \/ UNCHANGED Contract!vars
<1>1. trouble \subseteq {"fault", "told", "closed"}
  BY DEF Types, TypeOK
<1>2. Contract!Trouble
  BY <1>1 DEF Contract!Trouble, Contract!Troubles
<1> QED BY <1>2 DEF Contract!Next

(* Something is handed over while there is more of it.                          *)
LEMMA Gives ==
    ASSUME Types, answer = "none", UNCHANGED <<media, trouble, answer>>,
           NEW s \in Playable, given[s] < Total(media)[s],
           given' = [given EXCEPT ![s] = @ + 1]
    PROVE  Contract!Next
BY DEF Contract!Give, Contract!Next, Playable

(* The operation answers, with a reason.                                        *)
LEMMA Answers ==
    ASSUME Types, answer = "none", UNCHANGED <<media, given>>,
           NEW a \in {"success", "error", "stopped", "cancelled"}, answer' = a,
           trouble' \in {trouble, trouble \cup {"fault"}},
           Contract!Justified(a, trouble')
    PROVE  Contract!Next
<1>1. trouble \subseteq {"fault", "told", "closed"}
  BY DEF Types, TypeOK
<1>2. Contract!Answer(a)
  BY <1>1 DEF Contract!Answer, Contract!Troubles
<1> QED BY <1>2 DEF Contract!Next

(* A frame in the codec is one that was not handed over yet.                    *)
LEMMA RoomForFrames ==
    ASSUME Types, VideoCounted, worker["video"].codec # <<>>
    PROVE  given["video"] < Total(media)["video"]
<1>1. worker["video"].codec \in Seq(Nat)
  BY RecordTypes DEF Streams
<1>2. Len(worker["video"].codec) > 0
  BY <1>1
<1> DEFINE g == given["video"]
           c == Len(worker["video"].codec)
           q == Len(queue["video"])
           h == Holds("video")
           n == Cardinality(First(media, "video", demux.read))
           m == Cardinality(Of(media, "video"))
<1>3. g \in Nat /\ c \in Nat /\ q \in Nat /\ h \in {0, 1} /\ n \in Nat
  BY VideoTypes, Zenon
<1>4. m \in Nat /\ n <= m
  BY VideoTypes, FirstCounted
<1>5. g + c + q + h = n /\ c > 0
  BY <1>2 DEF VideoCounted
<1>6. Total(media)["video"] = m
  BY DEF Total
<1> HIDE DEF g, c, q, h, n, m
<1>7. g < m
  BY <1>3, <1>4, <1>5
<1> QED BY <1>6, <1>7 DEF g

(* A block that can be submitted is before the end of what sounds.              *)
LEMMA RoomForSound ==
    ASSUME Types, AudioAccounted, AudioAccounted', NEW codec \in Seq(Nat), Sounding(codec)
    PROVE  given["audio"] < Total(media)["audio"]
<1>1. due \in Nat /\ media.start \in Nat /\ SoundEnd(media) \in Nat
  BY AudioTypes
<1>2. media' = media /\ due' = due + 1
  BY DEF Sounding, Working
<1>3. due' <= SoundEnd(media')
  BY DEF AudioAccounted, Paced
<1>4. due + 1 <= SoundEnd(media)
  BY <1>2, <1>3
<1>5. given["audio"] = due - media.start
  BY DEF AudioAccounted, Paced
<1>6. Total(media)["audio"] = SoundEnd(media) - media.start
  BY DEF Total
<1> QED BY <1>1, <1>4, <1>5, <1>6

(* The audio was handed over as far as it sounds. *)
LEMMA AudioDone ==
    ASSUME Types, Reasons, Drains, AudioAccounted, terminal = "endOfStream",
           HasAudio => worker["audio"].outcome = "ended"
    PROVE  given["audio"] = SoundEnd(media) - media.start
<1>1. /\ media \in Media /\ due \in Nat /\ media.start \in Nat /\ SoundEnd(media) \in Nat
      /\ media.audioStart \in Int
  BY AudioTypes
<1>2. given["audio"] = due - media.start /\ media.start <= due /\ due <= SoundEnd(media)
  BY DEF AudioAccounted, Paced
<1>3. demux.read = Len(media.packets) /\ demux.held.stream = "none"
  BY DEF Reasons, NoPacket
<1>4. First(media, "audio", demux.read) = Of(media, "audio")
  <2>1. Len(media.packets) \in 0 .. Len(media.packets)
    BY <1>3, AudioTypes
  <2> QED BY <1>1, <1>3, <2>1, FirstCounted
<1>5. ASSUME NEW i \in Of(media, "audio") PROVE media.packets[i].at + 1 <= due
  <2>1. worker["audio"].outcome = "ended"
    BY <1>5 DEF HasAudio
  <2>2. queue["audio"] = <<>> /\ worker["audio"].codec = <<>>
    BY <2>1 DEF Drains, DrainsOf, Playable
  <2>3. \A t : ~UnderWay(t)
    BY <1>3, <2>2 DEF UnderWay
  <2>4. media.packets[i].at < due
    BY <1>4, <1>5, <2>3 DEF AudioAccounted, Heard
  <2>5. media.packets[i].at \in Nat
    BY <1>5, AudioTypes
  <2> QED BY <1>1, <2>4, <2>5
<1>6. Of(media, "audio") # {} => media.audioStart <= due
  BY DEF HasAudio, AudioAccounted, Led
<1>7. SoundEnd(media) <= due
  BY <1>1, <1>2, <1>5, <1>6, SoundEnds
<1> QED BY <1>1, <1>2, <1>7

(* What the joined workers returned is what happened. *)
LEMMA JoinAnswers ==
    ASSUME IInv, Join
    PROVE  Contract!Next
<1>1. Types /\ Stages /\ Reasons /\ Traces /\ Drains /\ VideoCounted /\ AudioAccounted
  BY DEF IInv
<1>2. /\ phase = "running" /\ UNCHANGED <<media, given, trouble>> /\ answer' = Classified
      /\ \A s \in Streams : worker[s].at \in {"absent", "done"}
  BY DEF Join, Ended, output, notes
<1>3. answer = "none"
  BY <1>1, <1>2 DEF Stages
<1> DEFINE outcomes == {worker[s].outcome : s \in Playable}
<1>4. \A s \in Playable : s \in Streams /\ Grounds(worker[s].outcome)
  BY <1>1 DEF Reasons, Playable, Streams
<1>5. CASE "error" \in outcomes
  <2>1. Classified = "error"
    BY <1>5 DEF Classified
  <2>2. "fault" \in trouble \/ Of(media, "video") = {}
    BY <1>4, <1>5 DEF Grounds
  <2>3. Of(media, "video") = {} => Total(media).video = 0
    BY FS_EmptySet DEF Total
  <2>4. Contract!Justified("error", trouble')
    BY <1>2, <2>2, <2>3 DEF Contract!Justified
  <2> QED BY <1>1, <1>2, <1>3, <2>1, <2>4, Answers
<1>6. CASE "error" \notin outcomes /\ "stopped" \in outcomes
  <2>1. Classified = "stopped"
    BY <1>6 DEF Classified
  <2>2. "closed" \in trouble
    BY <1>4, <1>6 DEF Grounds
  <2>3. Contract!Justified("stopped", trouble')
    BY <1>2, <2>2 DEF Contract!Justified
  <2> QED BY <1>1, <1>2, <1>3, <2>1, <2>3, Answers
<1>7. CASE /\ "error" \notin outcomes /\ "stopped" \notin outcomes
           /\ "told" \in trouble \/ "cancelled" \in outcomes
  <2>1. Classified = "cancelled"
    BY <1>7 DEF Classified
  <2>2. "told" \in trouble
    <3>1. CASE "cancelled" \in outcomes
      <4>1. stop
        BY <1>4, <3>1 DEF Grounds
      <4>2. \/ "told" \in trouble
            \/ \E s \in Playable : worker[s].outcome \in {"error", "stopped"}
        BY <1>1, <1>2, <4>1 DEF Traces
      <4> QED BY <1>7, <4>2
    <3> QED BY <1>7, <3>1
  <2>3. Contract!Justified("cancelled", trouble')
    BY <1>2, <2>2 DEF Contract!Justified
  <2> QED BY <1>1, <1>2, <1>3, <2>1, <2>3, Answers
<1>8. CASE /\ "error" \notin outcomes /\ "stopped" \notin outcomes
           /\ "told" \notin trouble /\ "cancelled" \notin outcomes
  <2>1. Classified = "success"
    BY <1>8 DEF Classified
  <2>2. \A s \in Playable : worker[s].outcome \in {"none", "ended"}
    BY <1>1, <1>4, <1>8, RecordTypes DEF WorkerOutcomes
  <2>3. worker["video"].outcome = "ended" /\ (HasAudio => worker["audio"].outcome = "ended")
    BY <1>1, <1>2, <2>2 DEF Stages, Playable, Streams
  <2>4. /\ terminal = "endOfStream" /\ queue["video"] = <<>> /\ worker["video"].codec = <<>>
        /\ given["video"] > 0
    BY <1>1, <2>3 DEF Drains, DrainsOf, Playable, VideoCounted
  <2>5. given["video"] = Cardinality(Of(media, "video"))
    BY <1>1, <2>4, VideoDone
  <2>6. given["audio"] = SoundEnd(media) - media.start
    BY <1>1, <2>3, <2>4, AudioDone
  <2>7. given = Total(media)
    <3>1. given \in [{"video", "audio"} -> Nat]
      BY <1>1 DEF Types, TypeOK, Playable
    <3>2. given = [video |-> given["video"], audio |-> given["audio"]]
      BY <3>1
    <3> QED BY <2>5, <2>6, <3>2 DEF Total
  <2>8. "fault" \notin trouble
    BY <1>1, <1>2, <1>8, <2>4 DEF Traces
  <2>9. trouble \subseteq {"closed"}
    BY <1>1, <1>8, <2>8 DEF Types, TypeOK
  <2>10. Contract!Justified("success", trouble')
    BY <1>2, <2>4, <2>7, <2>9 DEF Contract!Justified
  <2> QED BY <1>1, <1>2, <1>3, <2>1, <2>10, Answers
<1> QED BY <1>5, <1>6, <1>7, <1>8

(* Every step of the operation is a step of the contract or changes nothing of  *)
(* it.                                                                          *)
LEMMA ContractSteps == IInv /\ IInv' /\ [Next]_vars => Contract!Next \/ UNCHANGED Contract!vars
<1> SUFFICES ASSUME IInv, IInv', [Next]_vars
             PROVE  Contract!Next \/ UNCHANGED Contract!vars
  OBVIOUS
<1>1. /\ Types /\ Stages /\ Reasons /\ Traces /\ VideoCounted /\ AudioAccounted
      /\ AudioAccounted'
  BY DEF IInv
<1>2. CASE Stop
  BY <1>1, <1>2, Happens DEF Stop, Suffers, output, Stages
<1>3. CASE \E s \in Playable : CloseSink(s)
  BY <1>1, <1>3, Happens DEF CloseSink, Suffers, Stages
<1>4. CASE ReadFails
  BY <1>1, <1>4, Happens DEF ReadFails, Reading, Demuxing, Suffers, DemuxFrame, output, Stages
<1>5. CASE \E s \in Streams, o \in WorkerOutcomes : Returning(s, o)
  BY <1>1, <1>5, Happens DEF Returning, notes, output, Stages
<1>6. CASE OpenCancelled
  <2>1. "told" \in trouble
    <3>1. \A s \in Playable : worker[s].outcome = "none"
      BY <1>1, <1>6 DEF OpenCancelled, Stages, Idle, Playable, Streams
    <3> QED BY <1>1, <1>6, <3>1 DEF OpenCancelled, Traces
  <2>2. /\ answer = "none" /\ answer' = "cancelled" /\ UNCHANGED <<media, given, trouble>>
    BY <1>1, <1>6 DEF OpenCancelled, Ended, output, notes, Stages
  <2>3. Contract!Justified("cancelled", trouble')
    BY <2>1, <2>2 DEF Contract!Justified
  <2> QED BY <1>1, <2>2, <2>3, Answers
<1>7. CASE OpenFails
  <2>1. /\ answer = "none" /\ answer' = "error" /\ UNCHANGED <<media, given>>
        /\ trouble' = trouble \cup {"fault"}
    BY <1>1, <1>7 DEF OpenFails, Suffers, Ended, output, Stages
  <2>2. Contract!Justified("error", trouble')
    BY <2>1 DEF Contract!Justified
  <2> QED BY <1>1, <2>1, <2>2, Answers
<1>8. CASE Join
  BY <1>8, JoinAnswers
<1>9. CASE Showing
  <2>1. given["video"] < Total(media)["video"]
    BY <1>1, <1>9, RoomForFrames DEF Showing
  <2> QED BY <1>1, <1>9, <2>1, Gives DEF Showing, Working, notes, Stages, Playable
<1>10. CASE \E codec \in Seq(Nat) : Sounding(codec)
  <2>1. given["audio"] < Total(media)["audio"]
    BY <1>1, <1>10, RoomForSound
  <2> QED BY <1>1, <1>10, <2>1, Gives DEF Sounding, Working, notes, Stages, Playable
<1>11. CASE \/ Playing \/ ReadPacket \/ ReadEnds \/ ReadStops \/ PushPacket \/ PushRefused
            \/ Opening \/ (\E s \in Streams : Taking(s))
            \/ (\E s \in Playable : Flushing(s) \/ Asking(s))
            \/ Priming \/ Trimming \/ Subtitling
  BY <1>11 DEF Playing, ReadPacket, ReadEnds, ReadStops, PushPacket, PushRefused, DemuxFrame,
               Opening, Taking, Flushing, Asking, Priming, Trimming, Subtitling, Working,
               notes, output, Contract!vars
<1> QED BY <1>1, <1>2, <1>3, <1>4, <1>5, <1>6, <1>7, <1>8, <1>9, <1>10, <1>11, EveryStep

(* decodeMediaFrames implements DecodeContract: whatever its threads, the       *)
(* session's stop, the closed sinks and the failures do, success is answered    *)
(* only when every frame and every block was handed over, an error only for a   *)
(* failure, a stop only for a closed sink, a cancellation only when the session *)
(* asked for it, and nothing is handed over afterwards.                         *)
THEOREM ContractKept == Spec => KeepsContract
<1>1. Spec => []IInv
  BY OperationInvariance
<1>2. IInv /\ IInv' /\ [Next]_vars => [Contract!Next]_(Contract!vars)
  BY ContractSteps
<1>3. Init => Contract!Init
  BY ContractStarts
<1> QED BY <1>1, <1>2, <1>3, PTL DEF Spec, KeepsContract, Contract!Spec
================================================================================
