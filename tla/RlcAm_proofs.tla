---------------------------- MODULE RlcAm_proofs ----------------------------
(***************************************************************************)
(* Type correctness and safety of RlcAm, and that it implements            *)
(* RlcService, if no PDU overtakes another that is a window behind it.     *)
(*                                                                         *)
(* The sequence numbers of the code come round; the proof counts SDUs      *)
(* instead.  At(p) is the SN that follows p SDUs, a the number of SDUs     *)
(* that vt_a is past, and g the number it will be past when the status     *)
(* being handled is done with.                                             *)
(***************************************************************************)
EXTENDS RlcAm, FiniteSetTheorems, WellFoundedInduction, TLAPS

At(p) == (First + p) % Mod

Done == Len(delivered)

Received(n) == n <= Done \/ rxWin[At(n - 1)] = n

(* SDU n has not been sent, or waits in the transmitter's window. *)
Waiting(n) == n <= taken => txWin[At(n - 1)] = n

(* The transmitter: what is in the window is what has not been cleared,    *)
(* and what has been cleared has been received.                            *)
TxInv(a) ==
    /\ a <= Done /\ a <= taken /\ taken <= a + Window
    /\ vtA = At(a) /\ vtS = At(taken)
    /\ \A sn \in Sns : txWin[sn] # 0 => txWin[sn] \in a + 1..taken /\ sn = At(txWin[sn] - 1)
    /\ \A n \in a + 1..taken : txWin[At(n - 1)] = 0 => Received(n)

(* The receiver: vr_r, vr_ms, vr_h, vr_x stand for Done <= m <= h, and x   *)
(* between; the first two are not in the window.                           *)
RxAt(h, m, x) ==
    /\ Done <= m /\ m <= h /\ h <= taken /\ h <= Done + Window
    /\ vrR = At(Done) /\ vrMs = At(m) /\ vrH = At(h)
    /\ rxWin[At(Done)] = 0 /\ rxWin[At(m)] = 0
    /\ reordering => vrX = At(x) /\ Done < x /\ x <= h
    /\ \A sn \in Sns : rxWin[sn] # 0 => rxWin[sn] \in Done + 2..h /\ sn = At(rxWin[sn] - 1)

RxInv ==
    /\ delivered = [i \in 1..Done |-> i]
    /\ \E h, m, x \in 0..taken : RxAt(h, m, x)

DataPdu   == [sn : Sns, sdu : Nat, poll : BOOLEAN, retx : BOOLEAN, late : BOOLEAN]
StatusMsg == [ack : Sns, nacks : SUBSET Sns, sdu : Nat, late : BOOLEAN]

(* A data PDU is of the window that the receiver will be at when it comes. *)
Young(p) == \A n \in Nat : n >= p.sdu + Window => ~Received(n)

DataInv ==
    /\ data \in Seq(DataPdu)
    /\ \A k \in DOMAIN data : /\ data[k].sdu \in 1..taken /\ data[k].sn = At(data[k].sdu - 1)
                              /\ Young(data[k])
    /\ \A j, k \in DOMAIN data : j < k => data[j].sdu < data[k].sdu + Window

(* What a status says: all up to Upto but its NACKs has been received.     *)
Upto(s)    == s.sdu + ((s.ack - At(s.sdu)) % Mod)
Acks(s, n) == n <= Upto(s) /\ At(n - 1) \notin s.nacks

True(s) ==
    /\ s.sdu <= Done /\ Upto(s) <= taken /\ Upto(s) <= s.sdu + Window /\ s.ack = At(Upto(s))
    /\ \A sn \in s.nacks : \E n \in s.sdu + 1..Upto(s) : sn = At(n - 1)
    /\ \A n \in s.sdu + 1..Upto(s) : Acks(s, n) => Received(n)
    /\ ~Acks(s, s.sdu + 1)

(* Statuses come in the order in which they were sent, and none clears the *)
(* PDU that a later one will leave vt_a at; but for one that has been      *)
(* overtaken, which can no longer move vt_a.                               *)
StatusInv(g) ==
    /\ statuses \in Seq(StatusMsg)
    /\ \A k \in DOMAIN statuses :
        LET s == statuses[k]
        IN  /\ True(s)
            /\ s.late => k = 1 /\ s.sdu <= g /\ g < s.sdu + Window /\ ~Acks(s, g + 1)
            /\ ~s.late => g <= s.sdu /\ Waiting(s.sdu + 1)
    /\ \A j, k \in DOMAIN statuses : j < k =>
        statuses[j].sdu <= statuses[k].sdu /\ ~Acks(statuses[j], statuses[k].sdu + 1)

(* A status half handled: i, ack and end stand for j, e and f. *)
Handling(a, g, e, j, f) ==
    /\ handling.ack = At(e) /\ handling.i = At(j) /\ handling.end = At(f)
    /\ a <= j /\ j <= e /\ e <= f /\ f <= taken /\ g <= e
    /\ IF handling.move THEN j = a ELSE a = g
    /\ \A n \in a + 1..g : At(n - 1) \notin handling.nacks
    /\ g < e => At(g) \in handling.nacks
    /\ \A n \in a + 1..e : At(n - 1) \notin handling.nacks => Received(n)
    /\ \A k \in DOMAIN statuses :
        ~statuses[k].late /\ statuses[k].sdu < e => At(statuses[k].sdu) \in handling.nacks

StackInv(a, g) ==
    /\ a <= g /\ g <= Done /\ Waiting(g + 1)
    /\ stackPc # "status" => g = a
    /\ stackPc = "status" => \E e, j, f \in 0..taken : Handling(a, g, e, j, f)

IInv ==
    /\ TypeOK /\ RxInv /\ DataInv
    /\ \E a, g \in 0..taken : TxInv(a) /\ StatusInv(g) /\ StackInv(a, g)

-----------------------------------------------------------------------------
(* Arithmetic of sequence numbers. *)
LEMMA Sizes ==
    /\ Window \in Nat \ {0, 1} /\ Mod \in Nat \ {0} /\ Mod = Window + Window
    /\ Sns = 0..Mod - 1 /\ First \in Sns
  BY RlcAssumption DEF Mod, Sns

LEMMA ModOf ==
    ASSUME NEW m \in Nat \ {0}, NEW q \in Int, NEW r \in 0..m - 1
    PROVE  (m * q + r) % m = r
  OBVIOUS

LEMMA ModForm ==
    ASSUME NEW m \in Nat \ {0}, NEW x \in Int
    PROVE  x % m \in 0..m - 1 /\ \E q \in Int : x = m * q + (x % m)
<1>1. x = m * (x \div m) + (x % m)
  OBVIOUS
<1>2. x \div m \in Int
  OBVIOUS
<1>3. x % m \in 0..m - 1
  OBVIOUS
<1> QED
  BY <1>1, <1>2, <1>3

LEMMA AtForm ==
    ASSUME NEW p \in Int
    PROVE  At(p) \in Sns /\ \E q \in Int : First + p = Mod * q + At(p)
<1>1. Mod \in Nat \ {0} /\ First + p \in Int /\ Sns = 0..Mod - 1
  BY Sizes
<1>2. (First + p) % Mod \in 0..Mod - 1 /\ \E q \in Int : First + p = Mod * q + ((First + p) % Mod)
  BY ONLY <1>1, ModForm
<1> QED
  BY <1>1, <1>2 DEF At

(* The distance between two SNs, if it is short enough. *)
LEMMA Distance ==
    ASSUME NEW p \in Int, NEW q \in Int, NEW r \in 0..Mod - 1, NEW k \in Int, p - q = r + Mod * k
    PROVE  (At(p) - At(q)) % Mod = r
<1>1. PICK c \in Int : First + p = Mod * c + At(p)
  BY AtForm
<1>2. PICK d \in Int : First + q = Mod * d + At(q)
  BY AtForm
<1>3. At(p) \in Sns /\ At(q) \in Sns
  BY AtForm
<1>4. At(p) \in Int /\ At(q) \in Int /\ First \in Int /\ Mod \in Nat \ {0}
  BY <1>3, Sizes
<1>5. At(p) - At(q) = Mod * ((k + d) - c) + r /\ (k + d) - c \in Int
  BY <1>1, <1>2, <1>4
<1> QED
  BY ONLY <1>5, <1>4, ModOf

LEMMA Ahead ==
    ASSUME NEW p \in Int, NEW q \in Int, q <= p, p < q + Mod
    PROVE  (At(p) - At(q)) % Mod = p - q
<1>1. p - q \in 0..Mod - 1 /\ p - q = (p - q) + Mod * 0
  BY Sizes
<1> QED
  BY <1>1, Distance

LEMMA Behind ==
    ASSUME NEW p \in Int, NEW q \in Int, p < q, q <= p + Mod
    PROVE  (At(p) - At(q)) % Mod = Mod - (q - p)
<1>1. Mod - (q - p) \in 0..Mod - 1 /\ p - q = (Mod - (q - p)) + Mod * (-1)
  BY Sizes
<1> QED
  BY <1>1, Distance

LEMMA SameSn ==
    ASSUME NEW p \in Int, NEW q \in Int, At(p) = At(q), p < q + Mod, q < p + Mod
    PROVE  p = q
<1>1. (At(p) - At(p)) % Mod = 0 /\ (At(q) - At(q)) % Mod = 0
  BY Sizes, Ahead
<1>2. CASE q <= p
  BY <1>1, <1>2, Ahead
<1>3. CASE p <= q
  BY <1>1, <1>3, Ahead
<1> QED
  BY <1>2, <1>3

LEMMA OnFrom ==
    ASSUME NEW p \in Int, NEW n \in Int
    PROVE  (At(p) + n) % Mod = At(p + n)
<1>1. PICK c \in Int : First + p = Mod * c + At(p)
  BY AtForm
<1>2. PICK d \in Int : First + (p + n) = Mod * d + At(p + n)
  BY AtForm
<1>3. At(p) \in Sns /\ At(p + n) \in Sns
  BY AtForm
<1>4. At(p) \in Int /\ At(p + n) \in 0..Mod - 1 /\ First \in Int /\ Mod \in Nat \ {0}
  BY <1>3, Sizes
<1>5. At(p) + n = Mod * (d - c) + At(p + n) /\ d - c \in Int
  BY <1>1, <1>2, <1>4
<1> QED
  BY ONLY <1>5, <1>4, ModOf

LEMMA NextSn == ASSUME NEW p \in Int PROVE Next1(At(p)) = At(p + 1)
  BY OnFrom DEF Next1

LEMMA FirstSn == At(0) = First
<1>1. First + 0 = Mod * 0 + First
  BY Sizes
<1> QED
  BY <1>1, Sizes, ModOf DEF At

(* The least element of a set of naturals, and the greatest of a bounded one. *)
LEMMA Least ==
    ASSUME NEW S \in SUBSET Nat, S # {}
    PROVE  \E x \in S : \A y \in S : x <= y
<1> DEFINE R == OpToRel(<, Nat)
<1>1. IsWellFoundedOn(R, Nat)
  BY NatLessThanWellFounded
<1>2. \A x, y \in Nat : y < x => <<y, x>> \in R
  BY DEF OpToRel
<1> HIDE DEF R
<1>3. PICK x \in S : \A y \in S : ~ (<<y, x>> \in R)
  BY <1>1, WFMin
<1>4. \A y \in S : ~ (y < x)
  BY <1>2, <1>3
<1> QED
  BY <1>4

LEMMA Greatest ==
    ASSUME NEW S \in SUBSET Nat, S # {}, NEW b \in Nat, \A y \in S : y <= b
    PROVE  \E x \in S : \A y \in S : y <= x
<1> DEFINE T == {b - y : y \in S}
<1>1. T \in SUBSET Nat /\ T # {}
  <2>1. \A y \in S : b - y \in Nat
    OBVIOUS
  <2> QED
    BY <2>1
<1>2. PICK t \in T : \A u \in T : t <= u
  BY <1>1, Least
<1>3. PICK x \in S : t = b - x
  OBVIOUS
<1>4. \A y \in S : b - y \in T
  OBVIOUS
<1>5. \A y \in S : t <= b - y
  BY <1>2, <1>4
<1>6. x \in Nat /\ \A y \in S : y \in Nat
  OBVIOUS
<1> HIDE DEF T
<1> QED
  BY <1>3, <1>5, <1>6

-----------------------------------------------------------------------------
(* Channels. *)
Old(i, k) == IF i < k THEN i ELSE i + 1

LEMMA Appended ==
    ASSUME NEW S, NEW ch \in Seq(S), NEW e \in S
    PROVE  /\ Append(ch, e) \in Seq(S) /\ Len(Append(ch, e)) = Len(ch) + 1 /\ Len(ch) \in Nat
           /\ \A i \in 1..Len(ch) : Append(ch, e)[i] = ch[i]
           /\ Append(ch, e)[Len(ch) + 1] = e
  OBVIOUS

LEMMA Joined ==
    ASSUME NEW S, NEW u \in Seq(S), NEW v \in Seq(S)
    PROVE  u \o v \in Seq(S) /\ Len(u \o v) = Len(u) + Len(v)
  OBVIOUS

LEMMA Removed ==
    ASSUME NEW S, NEW ch \in Seq(S), NEW k \in 1..Len(ch)
    PROVE  /\ RemoveAt(ch, k) \in Seq(S) /\ Len(RemoveAt(ch, k)) = Len(ch) - 1
           /\ \A i \in 1..Len(ch) - 1 : Old(i, k) \in 1..Len(ch) /\ RemoveAt(ch, k)[i] = ch[Old(i, k)]
<1> DEFINE a == SubSeq(ch, 1, k - 1)
           b == SubSeq(ch, k + 1, Len(ch))
<1>1. a \in Seq(S) /\ Len(a) = k - 1 /\ \A i \in 1..k - 1 : a[i] = ch[i]
  OBVIOUS
<1>2. b \in Seq(S) /\ Len(b) = Len(ch) - k /\ \A i \in 1..Len(ch) - k : b[i] = ch[k + i]
  OBVIOUS
<1>3. RemoveAt(ch, k) = a \o b
  BY DEF RemoveAt
<1> HIDE DEF a, b
<1>4. a \o b \in Seq(S) /\ Len(a \o b) = Len(ch) - 1
  <2>1. Len(ch) \in Nat /\ k \in Nat
    OBVIOUS
  <2>2. a \o b \in Seq(S) /\ Len(a \o b) = Len(a) + Len(b)
    BY <1>1, <1>2, Joined
  <2> QED
    BY <1>1, <1>2, <2>1, <2>2
<1>5. ASSUME NEW i \in 1..Len(ch) - 1
      PROVE  Old(i, k) \in 1..Len(ch) /\ (a \o b)[i] = ch[Old(i, k)]
  <2>1. CASE i < k
    BY <1>1, <1>2, <2>1 DEF Old
  <2>2. CASE ~(i < k)
    <3>1. i - (k - 1) \in 1..Len(ch) - k /\ k + (i - (k - 1)) = i + 1
      BY <2>2
    <3>2. (a \o b)[i] = b[i - (k - 1)]
      BY <1>1, <1>2, <2>2
    <3> QED
      BY <3>1, <3>2, <1>2, <2>2 DEF Old
  <2> QED
    BY <2>1, <2>2
<1> QED
  BY <1>3, <1>4, <1>5

(* What a channel is without its k-th PDU, lost or received. *)
Overtaken(p) == [p EXCEPT !.late = TRUE]

Left(ch, r, k) ==
    /\ Len(r) = Len(ch) - 1
    /\ \A i \in 1..Len(ch) - 1 :
         /\ Old(i, k) \in 1..Len(ch)
         /\ r[i] = IF k = 2 /\ i = 1 THEN Overtaken(ch[1]) ELSE ch[Old(i, k)]

LEMMA Remaining ==
    ASSUME NEW S, NEW ch \in Seq(S), NEW k \in 1..2, k \in DOMAIN ch,
           \A p \in S : Overtaken(p) \in S
    PROVE  Without(ch, k) \in Seq(S) /\ Left(ch, Without(ch, k), k)
<1>1. CASE k = 1
  <2>1. /\ Tail(ch) \in Seq(S) /\ Len(Tail(ch)) = Len(ch) - 1
        /\ \A i \in 1..Len(ch) - 1 : Tail(ch)[i] = ch[i + 1]
    OBVIOUS
  <2> QED
    BY <1>1, <2>1 DEF Without, Old, Left
<1>2. CASE k = 2
  <2> DEFINE r == RemoveAt(ch, 2)
             l == Overtaken(ch[1])
  <2>1. /\ r \in Seq(S) /\ Len(r) = Len(ch) - 1
        /\ \A i \in 1..Len(ch) - 1 : Old(i, 2) \in 1..Len(ch) /\ r[i] = ch[Old(i, 2)]
    BY <1>2, Removed
  <2>2. 1 \in 1..Len(ch) - 1 /\ Old(1, 2) = 1 /\ ch[1] \in S /\ l \in S
    BY <1>2 DEF Old
  <2>3. r[1] = ch[1]
    BY <2>1, <2>2
  <2>4. Without(ch, k) = [r EXCEPT ![1] = l]
    <3>1. Without(ch, k) = [r EXCEPT ![1].late = TRUE]
      BY <1>2 DEF Without
    <3>2. [r EXCEPT ![1].late = TRUE] = [r EXCEPT ![1] = Overtaken(r[1])]
      BY DEF Overtaken
    <3> QED
      BY <2>3, <3>1, <3>2
  <2> HIDE DEF r, l
  <2>5. /\ [r EXCEPT ![1] = l] \in Seq(S) /\ Len([r EXCEPT ![1] = l]) = Len(r)
        /\ \A i \in 1..Len(r) : [r EXCEPT ![1] = l][i] = IF i = 1 THEN l ELSE r[i]
    BY <2>1, <2>2
  <2> QED
    BY <1>2, <2>1, <2>2, <2>4, <2>5 DEF l, Left
<1>3. k = 1 \/ k = 2
  OBVIOUS
<1> QED
  BY <1>1, <1>2, <1>3, Zenon

-----------------------------------------------------------------------------
(* What the parts of the invariant say together. *)
Grew == Done <= Done' /\ \A n \in Nat : Received(n) => Received(n)'

rxCore == <<vrR, vrMs, vrX, vrH, rxWin, delivered, reordering>>
txCore == <<vtA, vtS, txWin, taken>>

LEMMA TypeFacts ==
    ASSUME TypeOK
    PROVE  /\ Done \in Nat /\ taken \in Nat /\ taken <= MaxSdus /\ MaxSdus \in Nat
           /\ \A sn \in Sns : rxWin[sn] \in Nat /\ txWin[sn] \in Nat
           /\ \A p \in Int : rxWin[At(p)] \in Nat /\ txWin[At(p)] \in Nat /\ At(p) \in Sns
<1>1. \A p \in Int : At(p) \in Sns
  BY AtForm
<1>2. \A sn \in Sns : rxWin[sn] \in Nat /\ txWin[sn] \in Nat
  BY RlcAssumption DEF TypeOK
<1>3. Done \in Nat /\ taken \in Nat /\ taken <= MaxSdus /\ MaxSdus \in Nat
  <2>1. delivered \in Seq(1..MaxSdus) /\ written \in 0..MaxSdus /\ taken \in 0..written
    BY DEF TypeOK
  <2>2. MaxSdus \in Nat
    BY RlcAssumption
  <2> QED
    BY <2>1, <2>2 DEF Done
<1> QED
  BY <1>1, <1>2, <1>3

LEMMA RxFacts ==
    ASSUME TypeOK, RxInv
    PROVE  /\ Done <= taken /\ ~Received(Done + 1)
           /\ \A n \in Nat : Received(n) => n <= taken /\ n <= Done + Window
<1>1. PICK h, m, x \in 0..taken : RxAt(h, m, x)
  BY DEF RxInv
<1>2. Done \in Nat /\ taken \in Nat /\ Window \in Nat
  BY TypeFacts, Sizes
<1>3. ~Received(Done + 1)
  <2>1. rxWin[At((Done + 1) - 1)] = 0
    BY <1>1, <1>2, (Done + 1) - 1 = Done DEF RxAt
  <2> QED
    BY <1>2, <2>1 DEF Received
<1>4. ASSUME NEW n \in Nat, Received(n) PROVE n <= taken /\ n <= Done + Window
  <2>1. CASE n <= Done
    BY <1>1, <1>2, <2>1 DEF RxAt
  <2>2. CASE n > Done
    <3>1. rxWin[At(n - 1)] = n /\ n # 0 /\ At(n - 1) \in Sns
      BY <1>2, <1>4, <2>2, TypeFacts DEF Received
    <3>2. n \in Done + 2..h
      BY <1>1, <3>1 DEF RxAt
    <3> QED
      BY <1>1, <1>2, <3>2 DEF RxAt
  <2> QED
    BY <1>2, <2>1, <2>2
<1> QED
  BY <1>1, <1>2, <1>3, <1>4 DEF RxAt

(* What has not been cleared can be looked up. *)
LEMMA TxFacts ==
    ASSUME TypeOK, NEW a \in 0..taken, TxInv(a)
    PROVE  /\ \A p \in Int : a <= p /\ p < a + Mod => TxBase(At(p)) = p - a
           /\ \A n \in a + 1..taken : txWin[At(n - 1)] \in {0, n}
           /\ WindowFull <=> taken = a + Window
<1>1. \A p \in Int : a <= p /\ p < a + Mod => TxBase(At(p)) = p - a
  BY Ahead, TypeFacts DEF TxInv, TxBase
<1>2. ASSUME NEW n \in a + 1..taken PROVE txWin[At(n - 1)] \in {0, n}
  <2> DEFINE v == txWin[At(n - 1)]
  <2>1. n \in Int /\ At(n - 1) \in Sns /\ v \in Nat /\ a \in Nat /\ taken \in Nat
    BY TypeFacts
  <2>2. SUFFICES ASSUME v # 0 PROVE v = n
    OBVIOUS
  <2>3. v \in a + 1..taken /\ At(n - 1) = At(v - 1) /\ taken <= a + Window
    BY <2>1, <2>2 DEF TxInv
  <2> HIDE DEF v
  <2>4. n - 1 = v - 1
    BY <2>1, <2>3, Sizes, SameSn
  <2> QED
    BY <2>1, <2>3, <2>4
<1>3. TxBase(vtS) = taken - a
  BY <1>1, TypeFacts, Sizes DEF TxInv
<1>4. WindowFull <=> taken = a + Window
  <2>1. a \in Nat /\ taken \in Nat /\ Window \in Nat /\ taken <= a + Window
    BY TypeFacts, Sizes DEF TxInv
  <2> QED
    BY <1>3, <2>1 DEF WindowFull
<1> QED
  BY <1>1, <1>2, <1>4

(* What an action that leaves a part alone does to the rest. *)
LEMMA RxSame ==
    ASSUME TypeOK, RxInv, UNCHANGED rxCore, taken' \in Nat, taken <= taken'
    PROVE  /\ RxInv' /\ Done' = Done
           /\ \A n \in Nat : Received(n)' <=> Received(n)
           /\ Grew
<1>1. Done' = Done /\ taken \in Nat /\ Done \in Nat
  BY TypeFacts DEF rxCore, Done
<1>2. \A n \in Nat : Received(n)' <=> Received(n)
  BY <1>1 DEF rxCore, Received
<1>3. PICK h, m, x \in 0..taken : RxAt(h, m, x)
  BY DEF RxInv
<1>4. h \in 0..taken' /\ m \in 0..taken' /\ x \in 0..taken'
  BY <1>1
<1>5. RxAt(h, m, x)'
  BY <1>1, <1>3 DEF RxAt, rxCore
<1>6. delivered' = [i \in 1..Done' |-> i]
  BY <1>1 DEF rxCore, RxInv
<1>7. RxInv'
  BY <1>4, <1>5, <1>6 DEF RxInv
<1> QED
  BY <1>1, <1>2, <1>7 DEF Grew

LEMMA TxSame ==
    ASSUME TypeOK, NEW a \in 0..taken, TxInv(a), UNCHANGED txCore, Grew, Done' \in Nat
    PROVE  a \in 0..taken' /\ TxInv(a)'
<1>1. taken' = taken /\ vtA' = vtA /\ vtS' = vtS /\ txWin' = txWin
  BY DEF txCore
<1>2. Done \in Nat /\ taken \in Nat /\ a <= Done' /\ a \in 0..taken'
  BY <1>1, TypeFacts DEF TxInv, Grew
<1>3. ASSUME NEW n \in a + 1..taken, txWin[At(n - 1)] = 0 PROVE Received(n)'
  BY <1>2, <1>3 DEF TxInv, Grew
<1> QED
  BY <1>1, <1>2, <1>3 DEF TxInv

LEMMA DataSame ==
    ASSUME DataInv, data' = data, taken \in Nat, taken' \in Nat, taken <= taken',
           \A n \in Nat : Received(n)' <=> Received(n)
    PROVE  DataInv'
<1>1. \A p : Young(p) => Young(p)'
  BY DEF Young
<1> QED
  BY <1>1 DEF DataInv

LEMMA UptoForm ==
    ASSUME NEW s \in StatusMsg
    PROVE  s.sdu \in Nat /\ Upto(s) \in Nat /\ s.sdu <= Upto(s) /\ s.ack \in Sns
<1>1. s.sdu \in Nat /\ s.ack \in Sns /\ At(s.sdu) \in Sns
  BY AtForm DEF StatusMsg
<1>2. s.ack - At(s.sdu) \in Int /\ Mod \in Nat \ {0}
  BY <1>1, Sizes
<1>3. (s.ack - At(s.sdu)) % Mod \in 0..Mod - 1
  BY ONLY <1>2, ModForm
<1> QED
  BY <1>1, <1>2, <1>3 DEF Upto

LEMMA TrueStill ==
    ASSUME NEW s \in StatusMsg, True(s), Grew, taken <= taken',
           Done \in Nat, Done' \in Nat, taken \in Nat, taken' \in Nat
    PROVE  True(s)'
<1>1. s.sdu \in Nat /\ Upto(s) \in Nat
  BY UptoForm
<1>2. s.sdu <= Done' /\ Upto(s) <= taken'
  BY <1>1 DEF True, Grew
<1>3. \A n \in s.sdu + 1..Upto(s) : Acks(s, n) => Received(n)'
  BY <1>1 DEF True, Grew
<1> QED
  BY <1>2, <1>3 DEF True

LEMMA StatusKept ==
    ASSUME NEW g \in Nat, StatusInv(g), UNCHANGED statuses, Grew, taken <= taken',
           Done \in Nat, Done' \in Nat, taken \in Nat, taken' \in Nat,
           \A k \in DOMAIN statuses : ~statuses[k].late => Waiting(statuses[k].sdu + 1)'
    PROVE  StatusInv(g)'
<1> SUFFICES ASSUME NEW k \in DOMAIN statuses PROVE True(statuses[k])'
  BY DEF StatusInv
<1>1. statuses[k] \in StatusMsg /\ True(statuses[k])
  BY DEF StatusInv
<1> QED
  BY <1>1, TrueStill

LEMMA StatusSame ==
    ASSUME NEW g \in Nat, StatusInv(g), UNCHANGED statuses, Grew, taken <= taken',
           Done \in Nat, Done' \in Nat, taken \in Nat, taken' \in Nat,
           \A n \in Nat : n > g /\ n <= taken + 1 /\ Waiting(n) => Waiting(n)'
    PROVE  StatusInv(g)'
<1> SUFFICES ASSUME NEW k \in DOMAIN statuses, ~statuses[k].late
             PROVE  Waiting(statuses[k].sdu + 1)'
  BY StatusKept
<1>1. statuses[k] \in StatusMsg /\ True(statuses[k])
  BY DEF StatusInv
<1>2. statuses[k].sdu \in Nat /\ statuses[k].sdu <= taken
  BY <1>1, UptoForm DEF True
<1> QED
  BY <1>2 DEF StatusInv

LEMMA StackSame ==
    ASSUME TypeOK, RxInv, NEW a \in 0..taken, NEW g \in 0..taken, StackInv(a, g),
           Grew, Done' \in Nat, taken' \in Nat, taken <= taken',
           \/ UNCHANGED stackVars
           \/ stackPc # "status" /\ stackPc' # "status",
           \A k \in DOMAIN statuses' :
              \/ statuses'[k].late \/ statuses'[k].sdu = Done
              \/ \E i \in DOMAIN statuses : statuses'[k] = statuses[i],
           Waiting(g + 1) => Waiting(g + 1)'
    PROVE  StackInv(a, g)'
<1>1. Done \in Nat /\ taken \in Nat /\ ~Received(Done + 1) /\ Done <= taken
  BY TypeFacts, RxFacts
<1>2. a <= g /\ g <= Done' /\ Waiting(g + 1)'
  BY <1>1 DEF StackInv, Grew
<1>3. CASE stackPc # "status" /\ stackPc' # "status"
  BY <1>2, <1>3 DEF StackInv
<1>4. CASE UNCHANGED stackVars
  <2>1. stackPc' = stackPc /\ handling' = handling
    BY <1>4 DEF stackVars
  <2>2. SUFFICES ASSUME stackPc = "status"
                 PROVE  \E e, j, f \in 0..taken' : Handling(a, g, e, j, f)'
    BY <1>2, <2>1 DEF StackInv
  <2>3. PICK e, j, f \in 0..taken : Handling(a, g, e, j, f)
    BY <2>2 DEF StackInv
  <2>4. e \in 0..taken' /\ j \in 0..taken' /\ f \in 0..taken'
    BY <1>1
  <2>5. ASSUME Done < e PROVE At(Done) \in handling.nacks
    <3>1. Done + 1 \in a + 1..e /\ (Done + 1) - 1 = Done
      BY <1>1, <2>5 DEF StackInv
    <3> QED
      BY <1>1, <3>1, <2>3 DEF Handling
  <2>6. \A n \in a + 1..e : At(n - 1) \notin handling.nacks => Received(n)'
    BY <2>3 DEF Handling, Grew
  <2>7. ASSUME NEW k \in DOMAIN statuses', ~statuses'[k].late, statuses'[k].sdu < e
        PROVE  At(statuses'[k].sdu) \in handling.nacks
    BY <2>3, <2>5, <2>7 DEF Handling
  <2>8. Handling(a, g, e, j, f)'
    BY <1>1, <2>1, <2>3, <2>6, <2>7 DEF Handling
  <2> QED
    BY <2>4, <2>8
<1> QED
  BY <1>3, <1>4

(* Neither side moves: the SDU counts stay what they are. *)
Sides(a, g) == TxInv(a) /\ StatusInv(g) /\ StackInv(a, g)

LEMMA IInvSides ==
    IInv <=> TypeOK /\ RxInv /\ DataInv /\ \E a, g \in 0..taken : Sides(a, g)
  BY DEF IInv, Sides

LEMMA Idle ==
    ASSUME IInv, UNCHANGED <<rxCore, txCore, data, statuses>>,
           \/ UNCHANGED stackVars
           \/ stackPc # "status" /\ stackPc' # "status"
    PROVE  RxInv' /\ DataInv' /\ \E a, g \in 0..taken' : Sides(a, g)'
<1>1. TypeOK /\ RxInv /\ DataInv /\ Done \in Nat /\ taken \in Nat /\ taken' = taken
  BY TypeFacts DEF IInv, txCore
<1>2. RxInv' /\ Done' = Done /\ Grew /\ \A n \in Nat : Received(n)' <=> Received(n)
  BY <1>1, RxSame
<1>3. DataInv'
  BY <1>1, <1>2, DataSame
<1>4. PICK a, g \in 0..taken : TxInv(a) /\ StatusInv(g) /\ StackInv(a, g)
  BY DEF IInv
<1>5. \A n \in Nat : Waiting(n) => Waiting(n)'
  BY DEF Waiting, txCore
<1>6. TxInv(a)'
  BY <1>1, <1>2, <1>4, TxSame
<1>7. StatusInv(g)'
  BY <1>1, <1>2, <1>4, <1>5, StatusSame
<1>8. StackInv(a, g)'
  BY <1>1, <1>2, <1>4, <1>5, StackSame
<1> QED
  BY <1>1, <1>2, <1>3, <1>4, <1>6, <1>7, <1>8 DEF Sides

LEMMA WriteSduSafe == IInv /\ WriteSdu => RxInv' /\ DataInv' /\ \E a, g \in 0..taken' : Sides(a, g)'
  BY Idle DEF WriteSdu, rxVars, rxCore, txVars, txCore, stackVars, airVars

LEMMA PollTimerSafe ==
    IInv /\ (PollTimerExpires \/ PollTimerExpired)
      => RxInv' /\ DataInv' /\ \E a, g \in 0..taken' : Sides(a, g)'
  BY Idle DEF PollTimerExpires, PollTimerExpired, rxVars, rxCore, txVars, txCore, stackVars, airVars

LEMMA StutterSafe ==
    IInv /\ UNCHANGED vars => RxInv' /\ DataInv' /\ \E a, g \in 0..taken' : Sides(a, g)'
  BY Idle DEF vars, rxVars, rxCore, txVars, txCore, stackVars, airVars

-----------------------------------------------------------------------------
(* read_pdu. *)
LEMMA RetransmitForm ==
    ASSUME TypeOK, NEW q \in Seq(Sns)
    PROVE  /\ Retransmit(q) \in Seq(Sns)
           /\ q = <<>> => Retransmit(q) = <<>> \/ (Sent(vtA) /\ Retransmit(q) = <<vtA>>)
<1>1. vtA \in Sns
  BY DEF TypeOK
<1>2. Append(q, vtA) \in Seq(Sns) /\ <<>> \in Seq(Sns) /\ Append(<<>>, vtA) = <<vtA>>
  BY <1>1
<1> QED
  BY <1>2 DEF Retransmit, Pushed

LEMMA ToRetransmitForm ==
    ASSUME TypeOK
    PROVE  /\ ToRetransmit \in Seq(Sns)
           /\ ToRetransmit # <<>> => Head(ToRetransmit) \in Sns /\ Sent(Head(ToRetransmit))
<1> DEFINE asked == IF WindowFull /\ retxQ = <<>> THEN Retransmit(retxQ) ELSE retxQ
           live  == {k \in DOMAIN asked : Sent(asked[k])}
           first == CHOOSE k \in live : \A j \in live : k <= j
<1>1. asked \in Seq(Sns)
  BY RetransmitForm DEF TypeOK
<1>2. ToRetransmit = CASE asked = <<>> -> <<>>
                       [] live # {}    -> SubSeq(asked, first, Len(asked))
                       [] OTHER        -> Retransmit(<<>>)
  BY DEF ToRetransmit
<1> HIDE DEF asked
<1>3. asked = <<>> => live = {}
  OBVIOUS
<1>4. CASE asked = <<>>
  <2>1. ToRetransmit = <<>>
    BY <1>2, <1>3, <1>4
  <2> QED
    BY <2>1
<1>5. CASE asked # <<>> /\ live # {}
  <2>1. live \in SUBSET Nat
    BY <1>1
  <2>2. first \in live
    BY <2>1, <1>5, Least
  <2> HIDE DEF first
  <2>3. first \in 1..Len(asked) /\ asked[first] \in Sns /\ Sent(asked[first])
    BY <1>1, <2>2
  <2>4. ToRetransmit = SubSeq(asked, first, Len(asked))
    BY <1>2, <1>5
  <2>5. SubSeq(asked, first, Len(asked)) \in Seq(Sns)
        /\ Head(SubSeq(asked, first, Len(asked))) = asked[first]
    BY <1>1, <2>3
  <2> QED
    BY <2>3, <2>4, <2>5
<1>6. CASE asked # <<>> /\ live = {}
  <2>1. ToRetransmit = Retransmit(<<>>)
    BY <1>2, <1>6
  <2>2. <<>> \in Seq(Sns) /\ vtA \in Sns /\ Head(<<vtA>>) = vtA
    BY DEF TypeOK
  <2> QED
    BY <2>1, <2>2, RetransmitForm
<1> QED
  BY <1>4, <1>5, <1>6

LEMMA DataAppended ==
    ASSUME DataInv, NEW p \in DataPdu, data' = Append(data, p),
           taken \in Nat, taken' \in Nat, taken <= taken', p.sdu \in 1..taken', p.sn = At(p.sdu - 1),
           Young(p), \A k \in DOMAIN data : data[k].sdu < p.sdu + Window,
           \A n \in Nat : Received(n)' <=> Received(n)
    PROVE  DataInv'
<1>1. \A q : Young(q) => Young(q)'
  BY DEF Young
<1>2. /\ data' \in Seq(DataPdu) /\ Len(data') = Len(data) + 1 /\ Len(data) \in Nat
      /\ \A i \in 1..Len(data) : data'[i] = data[i]
      /\ data'[Len(data) + 1] = p
  BY Appended DEF DataInv
<1>3. data \in Seq(DataPdu) /\ DOMAIN data = 1..Len(data) /\ DOMAIN data' = 1..Len(data')
  BY <1>2 DEF DataInv
<1>4. ASSUME NEW k \in DOMAIN data', NEW r, r = data'[k]
      PROVE  r.sdu \in 1..taken' /\ r.sn = At(r.sdu - 1) /\ Young(r)'
  <2>1. CASE k \in 1..Len(data)
    <3>1. r = data[k] /\ k \in DOMAIN data
      BY <1>2, <1>3, <1>4, <2>1
    <3>2. r.sdu \in 1..taken /\ r.sn = At(r.sdu - 1) /\ Young(r)
      BY <3>1 DEF DataInv
    <3> QED
      BY <1>1, <3>2
  <2>2. CASE k = Len(data) + 1
    BY <1>1, <1>2, <1>4, <2>2
  <2> QED
    BY <1>2, <1>3, <2>1, <2>2
<1>5. ASSUME NEW j \in DOMAIN data', NEW k \in DOMAIN data', j < k
      PROVE  data'[j].sdu < data'[k].sdu + Window
  <2>1. j \in 1..Len(data)
    BY <1>2, <1>3, <1>5
  <2>2. CASE k \in 1..Len(data)
    BY <1>2, <1>3, <1>5, <2>1, <2>2 DEF DataInv
  <2>3. CASE k = Len(data) + 1
    BY <1>2, <1>3, <2>1, <2>3
  <2> QED
    BY <1>2, <1>3, <2>2, <2>3
<1> QED
  BY <1>2, <1>4, <1>5 DEF DataInv, Young

LEMMA BuildRetxPduSafe ==
    ASSUME IInv, ReadPdu, NEW q, q = ToRetransmit, q # <<>>, BuildRetxPdu(q)
    PROVE  RxInv' /\ DataInv' /\ \E a, g \in 0..taken' : Sides(a, g)'
<1> DEFINE sn   == Head(q)
           poll == PollDue \/ WindowFull
           p    == [sn |-> sn, sdu |-> txWin[sn], poll |-> poll, retx |-> TRUE, late |-> FALSE]
<1>1. /\ UNCHANGED <<rxCore, txCore, statuses, stackVars>>
      /\ data' = Append(data, p)
  BY DEF ReadPdu, BuildRetxPdu, Transmitted, rxVars, rxCore, txCore
<1>2. TypeOK /\ RxInv /\ DataInv /\ Done \in Nat /\ taken \in Nat /\ taken' = taken
  BY <1>1, TypeFacts DEF IInv, txCore
<1>3. PICK a, g \in 0..taken : TxInv(a) /\ StatusInv(g) /\ StackInv(a, g)
  BY DEF IInv
<1>4. RxInv' /\ Done' = Done /\ Grew /\ \A n \in Nat : Received(n)' <=> Received(n)
  BY <1>1, <1>2, RxSame
<1>5. sn \in Sns /\ txWin[sn] \in Nat /\ txWin[sn] # 0
  BY <1>2, TypeFacts, ToRetransmitForm DEF Sent
<1>6. txWin[sn] \in a + 1..taken /\ sn = At(txWin[sn] - 1) /\ taken <= a + Window
  BY <1>3, <1>5 DEF TxInv
<1>7. p \in DataPdu /\ p.sn = sn /\ p.sdu = txWin[sn]
  <2>1. poll \in BOOLEAN
    BY DEF PollDue, WindowFull
  <2> HIDE DEF poll
  <2> QED
    BY <1>5, <2>1 DEF DataPdu
<1> HIDE DEF p, sn
<1>8. Young(p)
  <2> SUFFICES ASSUME NEW n \in Nat, n >= p.sdu + Window, Received(n) PROVE FALSE
    BY DEF Young
  <2>1. n <= taken /\ Window \in Nat
    BY <1>2, RxFacts, Sizes
  <2> QED
    BY <1>2, <1>6, <1>7, <2>1
<1>9. \A k \in DOMAIN data : data[k].sdu < p.sdu + Window
  <2> SUFFICES ASSUME NEW k \in DOMAIN data PROVE data[k].sdu < p.sdu + Window
    OBVIOUS
  <2>1. data[k].sdu \in 1..taken
    BY <1>2 DEF DataInv
  <2>2. p.sdu \in a + 1..taken /\ taken <= a + Window /\ Window \in Nat
    BY <1>6, <1>7, Sizes
  <2> QED
    BY <1>2, <2>1, <2>2
<1>10. DataInv'
  <2>1. taken <= taken' /\ p.sdu \in 1..taken' /\ p.sn = At(p.sdu - 1)
    BY <1>2, <1>6, <1>7
  <2>2. p \in DataPdu /\ data' = Append(data, p) /\ taken \in Nat /\ taken' \in Nat
    BY <1>1, <1>2, <1>7
  <2> QED
    BY <1>2, <1>4, <1>8, <1>9, <2>1, <2>2, DataAppended
<1>11. \A n \in Nat : Waiting(n) => Waiting(n)'
  BY <1>1 DEF Waiting, txCore
<1>12. TxInv(a)'
  BY <1>1, <1>2, <1>3, <1>4, TxSame
<1>13. StatusInv(g)'
  BY <1>1, <1>2, <1>3, <1>4, <1>11, StatusSame
<1>14. StackInv(a, g)'
  BY <1>1, <1>2, <1>3, <1>4, <1>11, StackSame
<1> QED
  BY <1>2, <1>4, <1>10, <1>12, <1>13, <1>14 DEF Sides

LEMMA BuildDataPduSafe ==
    ASSUME IInv, ReadPdu, BuildDataPdu
    PROVE  RxInv' /\ DataInv' /\ \E a, g \in 0..taken' : Sides(a, g)'
<1> DEFINE poll == PollDue \/ taken + 1 = written
           p    == [sn |-> vtS, sdu |-> taken + 1, poll |-> poll, retx |-> FALSE, late |-> FALSE]
<1>1. /\ UNCHANGED <<rxCore, statuses, stackVars, vtA>> /\ ~WindowFull
      /\ data' = Append(data, p) /\ taken' = taken + 1 /\ vtS' = Next1(vtS)
      /\ txWin' = [txWin EXCEPT ![vtS] = taken + 1]
  BY DEF ReadPdu, BuildDataPdu, Transmitted, rxVars, rxCore
<1>2. /\ TypeOK /\ RxInv /\ DataInv /\ Done \in Nat
      /\ taken \in Nat /\ taken' \in Nat /\ taken <= taken' /\ Window \in Nat
  <2>1. TypeOK /\ RxInv /\ DataInv
    BY DEF IInv
  <2>2. Done \in Nat /\ taken \in Nat /\ Window \in Nat
    BY <2>1, TypeFacts, Sizes
  <2> QED
    BY <1>1, <2>1, <2>2
<1>3. PICK a, g \in 0..taken : TxInv(a) /\ StatusInv(g) /\ StackInv(a, g)
  BY DEF IInv
<1>4. RxInv' /\ Done' = Done /\ Grew /\ \A n \in Nat : Received(n)' <=> Received(n)
  BY <1>1, <1>2, RxSame
<1>5. taken < a + Window /\ vtS = At(taken) /\ vtS \in Sns /\ a <= g
  <2>1. taken # a + Window
    BY <1>1, <1>2, <1>3, TxFacts
  <2>2. taken <= a + Window /\ vtS = At(taken) /\ a <= g
    BY <1>3 DEF TxInv, StackInv
  <2> QED
    BY <1>2, <2>1, <2>2, AtForm
<1>6. p \in DataPdu /\ p.sn = vtS /\ p.sdu = taken + 1 /\ (taken + 1) - 1 = taken
  <2>1. poll \in BOOLEAN
    BY DEF PollDue
  <2> HIDE DEF poll
  <2> QED
    BY <1>2, <1>5, <2>1 DEF DataPdu
<1> HIDE DEF p
<1>7. Young(p)
  <2> SUFFICES ASSUME NEW n \in Nat, n >= p.sdu + Window, Received(n) PROVE FALSE
    BY DEF Young
  <2>1. n <= taken
    BY <1>2, RxFacts
  <2> QED
    BY <1>2, <1>6, <2>1
<1>8. \A k \in DOMAIN data : data[k].sdu < p.sdu + Window
  BY <1>2, <1>6, Sizes DEF DataInv
<1>9. DataInv'
  BY <1>1, <1>2, <1>4, <1>5, <1>6, <1>7, <1>8, DataAppended
<1>10. \A sn \in Sns : txWin'[sn] = IF sn = At(taken) THEN taken + 1 ELSE txWin[sn]
  BY <1>1, <1>5 DEF TypeOK, IInv
<1>11. TxInv(a)'
  <2>1. a <= Done' /\ a <= taken' /\ taken' <= a + Window /\ vtA' = At(a) /\ vtS' = At(taken')
    BY <1>1, <1>2, <1>3, <1>4, <1>5, NextSn DEF TxInv
  <2>2. ASSUME NEW sn \in Sns, txWin'[sn] # 0
        PROVE  txWin'[sn] \in a + 1..taken' /\ sn = At(txWin'[sn] - 1)
    <3>1. CASE sn = At(taken)
      BY <1>1, <1>2, <1>6, <1>10, <3>1
    <3>2. CASE sn # At(taken)
      BY <1>1, <1>2, <1>3, <1>10, <2>2, <3>2 DEF TxInv
    <3> QED
      BY <3>1, <3>2
  <2>3. ASSUME NEW n \in a + 1..taken', txWin'[At(n - 1)] = 0 PROVE Received(n)'
    <3>1. At(n - 1) \in Sns /\ n \in Nat
      BY AtForm
    <3>2. At(n - 1) # At(taken) /\ txWin[At(n - 1)] = 0
      BY <1>2, <1>10, <2>3, <3>1
    <3>3. n \in a + 1..taken
      BY <1>1, <1>2, <1>6, <3>2
    <3> QED
      BY <1>3, <1>4, <3>1, <3>2, <3>3 DEF TxInv
  <2> QED
    BY <2>1, <2>2, <2>3 DEF TxInv
<1>12. ASSUME NEW n \in Nat, n > g, n <= taken + 1, Waiting(n) PROVE Waiting(n)'
  <2>1. At(n - 1) \in Sns
    BY AtForm
  <2>2. CASE n = taken + 1
    BY <1>1, <1>6, <1>10, <2>1, <2>2 DEF Waiting
  <2>3. CASE n <= taken
    <3>1. At(n - 1) # At(taken)
      BY <1>2, <1>5, <1>12, <2>3, SameSn, Sizes
    <3> QED
      BY <1>10, <1>12, <2>1, <2>3, <3>1 DEF Waiting
  <2> QED
    BY <1>2, <1>12, <2>2, <2>3
<1>13. StatusInv(g)'
  BY <1>1, <1>2, <1>3, <1>4, <1>12, StatusSame
<1>14. StackInv(a, g)'
  <2>1. Waiting(g + 1) => Waiting(g + 1)'
    BY <1>2, <1>12
  <2> QED
    BY <1>1, <1>2, <1>3, <1>4, <2>1, StackSame
<1> QED
  BY <1>1, <1>2, <1>4, <1>9, <1>11, <1>13, <1>14 DEF Sides

LEMMA ReadPduSafe == IInv /\ ReadPdu => RxInv' /\ DataInv' /\ \E a, g \in 0..taken' : Sides(a, g)'
<1> SUFFICES ASSUME IInv, ReadPdu
             PROVE  RxInv' /\ DataInv' /\ \E a, g \in 0..taken' : Sides(a, g)'
  OBVIOUS
<1> DEFINE q == ToRetransmit
<1>1. CASE q # <<>> /\ BuildRetxPdu(q)
  BY <1>1, BuildRetxPduSafe
<1>2. CASE BuildDataPdu
  BY <1>2, BuildDataPduSafe
<1>3. CASE UNCHANGED <<vtA, vtS, txWin, taken, data>>
  BY <1>3, Idle DEF ReadPdu, rxVars, rxCore, txCore, stackVars
<1> QED
  BY <1>1, <1>2, <1>3 DEF ReadPdu

-----------------------------------------------------------------------------
(* handle_control_pdu, once the mutex has been released. *)
LEMMA UnhandledForm ==
    ASSUME TypeOK, NEW a \in 0..taken, NEW g \in 0..taken, TxInv(a),
           NEW e \in 0..taken, NEW j \in 0..taken, NEW f \in 0..taken, Handling(a, g, e, j, f)
    PROVE  Unhandled <=> j < e
<1>1. taken \in Nat /\ taken <= a + Window /\ Window \in Nat /\ Mod = Window + Window /\ Window > 0
  BY TypeFacts, Sizes DEF TxInv
<1>2. a <= j /\ j <= e /\ e <= f
  BY DEF Handling
<1>3. TxBase(At(j)) = j - a /\ TxBase(At(e)) = e - a /\ TxBase(At(f)) = f - a
  BY <1>1, <1>2, TxFacts
<1>4. handling.i = At(j) /\ handling.ack = At(e) /\ handling.end = At(f)
  BY DEF Handling
<1> QED
  BY <1>1, <1>2, <1>3, <1>4 DEF Unhandled

LEMMA HandlingFields ==
    ASSUME TypeOK
    PROVE  /\ \A v : [handling EXCEPT !.i = v].i = v /\ [handling EXCEPT !.i = v, !.move = FALSE].i = v
           /\ \A v : LET h == [handling EXCEPT !.i = v]
                     IN  h.ack = handling.ack /\ h.nacks = handling.nacks
                         /\ h.end = handling.end /\ h.move = handling.move
           /\ \A v : LET h == [handling EXCEPT !.i = v, !.move = FALSE]
                     IN  h.ack = handling.ack /\ h.nacks = handling.nacks
                         /\ h.end = handling.end /\ h.move = FALSE
  BY DEF TypeOK

LEMMA NackedSafe ==
    ASSUME IInv, Nacked
    PROVE  RxInv' /\ DataInv' /\ \E a, g \in 0..taken' : Sides(a, g)'
<1>1. TypeOK /\ RxInv /\ DataInv
  BY DEF IInv
<1>2. /\ UNCHANGED <<rxCore, txCore, data, statuses, stackPc>> /\ stackPc = "status"
      /\ Unhandled /\ handling.i \in handling.nacks /\ taken' = taken
      /\ handling' = [handling EXCEPT !.i = Next1(handling.i), !.move = FALSE]
  BY DEF Nacked, rxVars, rxCore, txCore, airVars
<1>3. Done \in Nat /\ taken \in Nat
  BY <1>1, TypeFacts
<1>4. PICK a, g \in 0..taken : TxInv(a) /\ StatusInv(g) /\ StackInv(a, g)
  BY DEF IInv
<1>5. RxInv' /\ Done' = Done /\ Grew /\ \A n \in Nat : Received(n)' <=> Received(n)
  BY <1>1, <1>2, <1>3, RxSame
<1>6. DataInv'
  BY <1>1, <1>2, <1>3, <1>5, DataSame
<1>7. \A n \in Nat : Waiting(n) => Waiting(n)'
  BY <1>2 DEF Waiting, txCore
<1>8. TxInv(a)'
  BY <1>1, <1>2, <1>3, <1>4, <1>5, TxSame
<1>9. StatusInv(g)'
  BY <1>2, <1>3, <1>4, <1>5, <1>7, StatusSame
<1>10. PICK e, j, f \in 0..taken : Handling(a, g, e, j, f)
  BY <1>2, <1>4 DEF StackInv
<1>11. j < e /\ a <= g
  BY <1>1, <1>2, <1>4, <1>10, UnhandledForm DEF StackInv
<1>12. a = g
  <2>1. CASE ~handling.move
    BY <1>10, <2>1 DEF Handling
  <2>2. CASE handling.move
    <3>1. j = a /\ At(a) \in handling.nacks
      BY <1>2, <1>10, <2>2 DEF Handling
    <3>2. ~(a < g)
      BY <1>3, <1>10, <3>1, (a + 1) - 1 = a DEF Handling
    <3> QED
      BY <1>11, <3>2
  <2> QED
    BY <2>1, <2>2
<1>13. /\ handling'.ack = handling.ack /\ handling'.nacks = handling.nacks
       /\ handling'.end = handling.end /\ handling'.move = FALSE /\ handling'.i = At(j + 1)
  <2>1. handling.i = At(j)
    BY <1>10 DEF Handling
  <2> QED
    BY <1>1, <1>2, <2>1, NextSn, HandlingFields
<1>14. Handling(a, g, e, j + 1, f)'
  BY <1>2, <1>3, <1>5, <1>10, <1>11, <1>12, <1>13 DEF Handling, Grew
<1>15. StackInv(a, g)'
  <2>1. j + 1 \in 0..taken'
    BY <1>2, <1>3, <1>11
  <2> QED
    BY <1>2, <1>4, <1>5, <1>7, <1>14, <2>1 DEF StackInv
<1> QED
  BY <1>2, <1>5, <1>6, <1>8, <1>9, <1>15 DEF Sides

LEMMA AckedSafe ==
    ASSUME IInv, Acked
    PROVE  RxInv' /\ DataInv' /\ \E a, g \in 0..taken' : Sides(a, g)'
<1>1. TypeOK /\ RxInv /\ DataInv
  BY DEF IInv
<1>2. /\ UNCHANGED <<rxCore, vtS, taken, data, statuses, stackPc>> /\ stackPc = "status"
      /\ Unhandled /\ handling.i \notin handling.nacks
      /\ txWin' = [txWin EXCEPT ![handling.i] = 0]
      /\ vtA' = IF handling.move THEN Next1(vtA) ELSE vtA
      /\ handling' = [handling EXCEPT !.i = Next1(handling.i)]
  BY DEF Acked, rxVars, rxCore, airVars
<1>3. Done \in Nat /\ taken \in Nat /\ Window \in Nat /\ Mod = Window + Window /\ Window > 0
  BY <1>1, TypeFacts, Sizes
<1>4. PICK a, g \in 0..taken : TxInv(a) /\ StatusInv(g) /\ StackInv(a, g)
  BY DEF IInv
<1>5. RxInv' /\ Done' = Done /\ Grew /\ \A n \in Nat : Received(n)' <=> Received(n)
  BY <1>1, <1>2, <1>3, RxSame
<1>6. DataInv'
  BY <1>1, <1>2, <1>3, <1>5, DataSame
<1>7. PICK e, j, f \in 0..taken : Handling(a, g, e, j, f)
  BY <1>2, <1>4 DEF StackInv
<1>8. /\ j < e /\ a <= j /\ a <= g /\ g <= Done /\ taken <= a + Window
      /\ handling.i = At(j) /\ At(j) \notin handling.nacks
  BY <1>1, <1>2, <1>4, <1>7, UnhandledForm DEF StackInv, Handling, TxInv
<1>9. Received(j + 1) /\ j # g /\ (j + 1) - 1 = j
  BY <1>3, <1>7, <1>8 DEF Handling
<1>10. \A sn \in Sns : txWin'[sn] = IF sn = At(j) THEN 0 ELSE txWin[sn]
  BY <1>1, <1>2, <1>8 DEF TypeOK
<1>11. PICK a2 \in 0..taken : a2 = IF handling.move THEN a + 1 ELSE a
  <2>1. handling.move => a + 1 \in 0..taken
    BY <1>3, <1>7, <1>8 DEF Handling
  <2> QED
    BY <2>1
<1>12. /\ a <= a2 /\ a2 <= j + 1 /\ a2 <= g /\ a2 \in 0..taken'
        /\ IF handling.move THEN a2 = j + 1 ELSE a2 = g
  BY <1>2, <1>3, <1>7, <1>8, <1>9, <1>11 DEF Handling
<1>13. vtA' = At(a2)
  <2>1. vtA = At(a)
    BY <1>4 DEF TxInv
  <2> QED
    BY <1>2, <1>11, <2>1, NextSn
<1>14. handling.move => a = j
  BY <1>7 DEF Handling
<1>15. a2 \in Nat /\ (a2 # a => a2 = j + 1 /\ a = j)
  BY <1>3, <1>11, <1>14, <1>12
<1>16. TxInv(a2)'
  <2>1. a2 <= Done' /\ a2 <= taken' /\ taken' <= a2 + Window /\ vtS' = At(taken')
    BY <1>2, <1>3, <1>4, <1>5, <1>8, <1>12 DEF TxInv
  <2>2. ASSUME NEW sn \in Sns, txWin'[sn] # 0
        PROVE  txWin'[sn] \in a2 + 1..taken' /\ sn = At(txWin'[sn] - 1)
    <3>1. sn # At(j) /\ txWin'[sn] = txWin[sn]
      BY <1>10, <2>2
    <3>2. txWin[sn] \in a + 1..taken /\ sn = At(txWin[sn] - 1)
      BY <1>4, <2>2, <3>1 DEF TxInv
    <3>3. txWin[sn] # j + 1
      BY <1>9, <3>1, <3>2
    <3> QED
      BY <1>2, <1>3, <1>15, <3>1, <3>2, <3>3
  <2>3. ASSUME NEW n \in a2 + 1..taken', txWin'[At(n - 1)] = 0 PROVE Received(n)'
    <3>1. n \in a + 1..taken /\ At(n - 1) \in Sns /\ n \in Nat
      BY <1>2, <1>3, <1>12, <1>15, AtForm
    <3>2. CASE At(n - 1) = At(j)
      <4>1. n - 1 = j
        BY <1>3, <1>8, <3>1, <3>2, SameSn
      <4> QED
        BY <1>5, <1>9, <3>1, <4>1
    <3>3. CASE At(n - 1) # At(j)
      BY <1>4, <1>5, <1>10, <2>3, <3>1, <3>3 DEF TxInv
    <3> QED
      BY <3>2, <3>3
  <2> QED
    BY <1>13, <2>1, <2>2, <2>3 DEF TxInv
<1>17. ASSUME NEW n \in Nat, n <= taken + 1, n > a, n # j + 1, Waiting(n) PROVE Waiting(n)'
  <2> SUFFICES ASSUME n <= taken PROVE txWin'[At(n - 1)] = n
    BY <1>2 DEF Waiting
  <2>1. At(n - 1) # At(j)
    BY <1>3, <1>8, <1>17, SameSn
  <2> QED
    BY <1>10, <1>17, <2>1, AtForm DEF Waiting
<1>18. StatusInv(g)'
  <2>1. ASSUME NEW k \in DOMAIN statuses, ~statuses[k].late
        PROVE  Waiting(statuses[k].sdu + 1)'
    <3>1. statuses[k] \in StatusMsg /\ True(statuses[k])
      BY <1>4 DEF StatusInv
    <3>2. /\ statuses[k].sdu \in Nat /\ statuses[k].sdu <= taken
          /\ g <= statuses[k].sdu /\ Waiting(statuses[k].sdu + 1)
      BY <1>3, <1>4, <2>1, <3>1, UptoForm DEF StatusInv, True
    <3>3. statuses[k].sdu # j
      BY <1>7, <1>8, <2>1 DEF Handling
    <3>4. /\ statuses[k].sdu + 1 \in Nat /\ statuses[k].sdu + 1 <= taken + 1
          /\ statuses[k].sdu + 1 > a /\ statuses[k].sdu + 1 # j + 1
      BY <1>3, <1>4, <1>7, <1>8, <3>2, <3>3
    <3>5. PICK n \in Nat : n = statuses[k].sdu + 1
      BY <3>4
    <3>6. Waiting(n)'
      BY <1>17, <3>2, <3>4, <3>5
    <3> QED
      BY <1>2, <3>5, <3>6 DEF Waiting
  <2> QED
    BY <1>2, <1>3, <1>4, <1>5, <2>1, StatusKept
<1>19. /\ handling'.ack = handling.ack /\ handling'.nacks = handling.nacks
       /\ handling'.end = handling.end /\ handling'.move = handling.move /\ handling'.i = At(j + 1)
  BY <1>1, <1>2, <1>8, NextSn, HandlingFields
<1>20. Handling(a2, g, e, j + 1, f)'
  BY <1>2, <1>3, <1>5, <1>7, <1>8, <1>12, <1>19 DEF Handling, Grew
<1>21. StackInv(a2, g)'
  <2>1. Waiting(g + 1)'
    BY <1>3, <1>4, <1>8, <1>9, <1>17 DEF StackInv
  <2>2. e \in 0..taken' /\ j + 1 \in 0..taken' /\ f \in 0..taken'
    BY <1>2, <1>3, <1>8
  <2> QED
    BY <1>2, <1>5, <1>8, <1>12, <1>20, <2>1, <2>2 DEF StackInv
<1>22. g \in 0..taken'
  BY <1>2
<1> QED
  BY <1>5, <1>6, <1>12, <1>16, <1>18, <1>21, <1>22 DEF Sides

LEMMA StatusHandledSafe ==
    ASSUME IInv, StatusHandled
    PROVE  RxInv' /\ DataInv' /\ \E a, g \in 0..taken' : Sides(a, g)'
<1>1. TypeOK /\ RxInv /\ DataInv
  BY DEF IInv
<1>2. /\ UNCHANGED <<rxCore, txCore, data, statuses>> /\ stackPc = "status" /\ stackPc' = "idle"
      /\ ~Unhandled /\ taken' = taken
  BY DEF StatusHandled, rxVars, rxCore, txVars, txCore, airVars
<1>3. Done \in Nat /\ taken \in Nat
  BY <1>1, TypeFacts
<1>4. PICK a, g \in 0..taken : TxInv(a) /\ StatusInv(g) /\ StackInv(a, g)
  BY DEF IInv
<1>5. RxInv' /\ Done' = Done /\ Grew /\ \A n \in Nat : Received(n)' <=> Received(n)
  BY <1>1, <1>2, <1>3, RxSame
<1>6. DataInv'
  BY <1>1, <1>2, <1>3, <1>5, DataSame
<1>7. \A n \in Nat : Waiting(n) => Waiting(n)'
  BY <1>2 DEF Waiting, txCore
<1>8. TxInv(a)'
  BY <1>1, <1>2, <1>3, <1>4, <1>5, TxSame
<1>9. StatusInv(g)'
  BY <1>2, <1>3, <1>4, <1>5, <1>7, StatusSame
<1>10. PICK e, j, f \in 0..taken : Handling(a, g, e, j, f)
  BY <1>2, <1>4 DEF StackInv
<1>11. g = a
  <2>1. ~(j < e)
    BY <1>1, <1>2, <1>4, <1>10, UnhandledForm
  <2> QED
    BY <1>3, <1>4, <1>10, <2>1 DEF Handling, StackInv
<1>12. StackInv(a, g)'
  BY <1>2, <1>4, <1>5, <1>7, <1>11 DEF StackInv
<1> QED
  BY <1>2, <1>5, <1>6, <1>8, <1>9, <1>12 DEF Sides

-----------------------------------------------------------------------------
(* What is left of the statuses once one has been lost or received.        *)
Same(s, t) == s.sdu = t.sdu /\ s.ack = t.ack /\ s.nacks = t.nacks

LEMMA SameStatus ==
    ASSUME NEW s, NEW t, Same(s, t)
    PROVE  Upto(s) = Upto(t) /\ (True(s) <=> True(t)) /\ \A n : Acks(s, n) <=> Acks(t, n)
<1>1. Upto(s) = Upto(t)
  BY DEF Same, Upto
<1>2. \A n : Acks(s, n) <=> Acks(t, n)
  BY <1>1 DEF Same, Acks
<1> QED
  BY <1>1, <1>2 DEF Same, True

LEMMA OldForm ==
    ASSUME NEW i \in Nat, NEW j \in Nat, NEW k \in Nat
    PROVE  /\ i < j => Old(i, k) < Old(j, k)
           /\ i <= Old(i, k) /\ Old(i, k) \in Nat
           /\ k = 1 /\ i >= 1 => Old(i, k) = i + 1
  BY DEF Old

LEMMA StatusLeft ==
    ASSUME NEW g \in Nat, StatusInv(g), NEW g2 \in Nat, NEW k \in Nat,
           statuses' \in Seq(StatusMsg), UNCHANGED taken, Grew,
           Done \in Nat, Done' \in Nat, taken \in Nat,
           \A i \in DOMAIN statuses' :
              Old(i, k) \in DOMAIN statuses /\ Same(statuses'[i], statuses[Old(i, k)]),
           \A i \in DOMAIN statuses' : statuses'[i].late =>
              /\ i = 1 /\ statuses'[i].sdu <= g2 /\ g2 < statuses'[i].sdu + Window
              /\ ~Acks(statuses'[i], g2 + 1),
           \A i \in DOMAIN statuses' : ~statuses'[i].late => g2 <= statuses'[i].sdu,
           \A i \in DOMAIN statuses', n \in Nat :
              ~statuses'[i].late /\ n = statuses'[i].sdu + 1 => Waiting(n)'
    PROVE  StatusInv(g2)'
<1>1. ASSUME NEW i \in DOMAIN statuses', NEW s, s = statuses'[i]
      PROVE  s \in StatusMsg /\ True(s)'
  <2>1. /\ Old(i, k) \in DOMAIN statuses /\ Same(s, statuses[Old(i, k)])
        /\ s \in StatusMsg
    BY <1>1
  <2>2. True(statuses[Old(i, k)])
    BY <2>1 DEF StatusInv
  <2>3. True(s)
    BY <2>1, <2>2, SameStatus
  <2> QED
    BY <2>1, <2>3, TrueStill
<1>2. ASSUME NEW i \in DOMAIN statuses', NEW j \in DOMAIN statuses', i < j
      PROVE  /\ statuses'[i].sdu <= statuses'[j].sdu
             /\ ~Acks(statuses'[i], statuses'[j].sdu + 1)
  <2>1. i \in Nat /\ j \in Nat
    OBVIOUS
  <2>2. Old(i, k) < Old(j, k)
    BY <1>2, <2>1, OldForm
  <2>3. /\ Old(i, k) \in DOMAIN statuses /\ Same(statuses'[i], statuses[Old(i, k)])
        /\ Old(j, k) \in DOMAIN statuses /\ Same(statuses'[j], statuses[Old(j, k)])
    OBVIOUS
  <2>4. /\ statuses[Old(i, k)].sdu <= statuses[Old(j, k)].sdu
        /\ ~Acks(statuses[Old(i, k)], statuses[Old(j, k)].sdu + 1)
    BY <2>2, <2>3 DEF StatusInv
  <2>5. statuses'[i].sdu = statuses[Old(i, k)].sdu /\ statuses'[j].sdu = statuses[Old(j, k)].sdu
    BY <2>3 DEF Same
  <2>6. \A n : Acks(statuses'[i], n) <=> Acks(statuses[Old(i, k)], n)
    BY <2>3, SameStatus
  <2> QED
    BY <2>4, <2>5, <2>6
<1>3. ASSUME NEW i \in DOMAIN statuses', ~statuses'[i].late, NEW n, n = statuses'[i].sdu + 1
      PROVE  Waiting(n)'
  <2>1. n \in Nat
    BY <1>1, <1>3 DEF StatusMsg
  <2> QED
    BY <1>3, <2>1
<1> QED
  BY <1>1, <1>2, <1>3 DEF StatusInv

LEMMA LoseStatusSafe ==
    ASSUME IInv, LoseStatus
    PROVE  RxInv' /\ DataInv' /\ \E a, g \in 0..taken' : Sides(a, g)'
<1>1. TypeOK /\ RxInv /\ DataInv
  BY DEF IInv
<1>2. PICK k \in DOMAIN statuses : statuses' = RemoveAt(statuses, k)
  BY DEF LoseStatus
<1>3. UNCHANGED <<rxCore, txCore, data, stackVars>> /\ taken' = taken
  BY DEF LoseStatus, rxVars, rxCore, txVars, txCore
<1>4. Done \in Nat /\ taken \in Nat
  BY <1>1, TypeFacts
<1>5. PICK a, g \in 0..taken : TxInv(a) /\ StatusInv(g) /\ StackInv(a, g)
  BY DEF IInv
<1>6. RxInv' /\ Done' = Done /\ Grew /\ \A n \in Nat : Received(n)' <=> Received(n)
  BY <1>1, <1>3, <1>4, RxSame
<1>7. DataInv'
  BY <1>1, <1>3, <1>4, <1>6, DataSame
<1>8. \A n \in Nat : Waiting(n) => Waiting(n)'
  BY <1>3 DEF Waiting, txCore
<1>9. TxInv(a)'
  BY <1>1, <1>3, <1>4, <1>5, <1>6, TxSame
<1>10. /\ statuses' \in Seq(StatusMsg) /\ statuses \in Seq(StatusMsg) /\ k \in Nat
       /\ \A i \in DOMAIN statuses' : Old(i, k) \in DOMAIN statuses /\ statuses'[i] = statuses[Old(i, k)]
  <2>1. statuses \in Seq(StatusMsg) /\ k \in 1..Len(statuses)
    BY <1>5 DEF StatusInv
  <2>2. /\ RemoveAt(statuses, k) \in Seq(StatusMsg) /\ Len(RemoveAt(statuses, k)) = Len(statuses) - 1
        /\ \A i \in 1..Len(statuses) - 1 :
              Old(i, k) \in 1..Len(statuses) /\ RemoveAt(statuses, k)[i] = statuses[Old(i, k)]
    BY <2>1, Removed
  <2>3. DOMAIN statuses' = 1..Len(statuses) - 1 /\ DOMAIN statuses = 1..Len(statuses)
    BY <1>2, <2>1, <2>2
  <2> QED
    BY <1>2, <2>1, <2>2, <2>3
<1>11. \A i \in DOMAIN statuses' : statuses'[i].late => i = 1
  <2> SUFFICES ASSUME NEW i \in DOMAIN statuses', statuses'[i].late PROVE i = 1
    OBVIOUS
  <2>1. Old(i, k) = 1 /\ i \in Nat /\ i >= 1
    BY <1>5, <1>10 DEF StatusInv
  <2> QED
    BY <1>10, <2>1 DEF Old
<1>12. StatusInv(g)'
  <2>1. \A i \in DOMAIN statuses' : Same(statuses'[i], statuses[Old(i, k)])
    BY <1>10 DEF Same
  <2>2. \A i \in DOMAIN statuses' : statuses'[i].late =>
          /\ i = 1 /\ statuses'[i].sdu <= g /\ g < statuses'[i].sdu + Window
          /\ ~Acks(statuses'[i], g + 1)
    BY <1>5, <1>10, <1>11 DEF StatusInv
  <2>3. \A i \in DOMAIN statuses' : ~statuses'[i].late => g <= statuses'[i].sdu
    BY <1>5, <1>10 DEF StatusInv
  <2>4. ASSUME NEW i \in DOMAIN statuses', NEW n \in Nat,
               ~statuses'[i].late /\ n = statuses'[i].sdu + 1
        PROVE  Waiting(n)'
    <3>1. Waiting(n)
      BY <1>5, <1>10, <2>4 DEF StatusInv
    <3> QED
      BY <1>8, <3>1
  <2> QED
    BY <1>3, <1>4, <1>5, <1>6, <1>10, <2>1, <2>2, <2>3, <2>4, StatusLeft
<1>13. StackInv(a, g)'
  <2>1. \A i \in DOMAIN statuses' : \E o \in DOMAIN statuses : statuses'[i] = statuses[o]
    BY <1>10
  <2> QED
    BY <1>1, <1>3, <1>4, <1>5, <1>6, <1>8, <2>1, StackSame
<1> QED
  BY <1>3, <1>6, <1>7, <1>9, <1>12, <1>13 DEF Sides

(* What handle_control_pdu leaves in the channel. *)
LEMMA StatusTaken ==
    ASSUME NEW g \in Nat, StatusInv(g), NEW k \in 1..2, k \in DOMAIN statuses,
           statuses' = Without(statuses, k)
    PROVE  /\ statuses' \in Seq(StatusMsg)
           /\ \A i \in DOMAIN statuses' :
                /\ i \in Nat /\ i >= 1
                /\ Old(i, k) \in DOMAIN statuses /\ Same(statuses'[i], statuses[Old(i, k)])
                /\ ~statuses'[i].late => (k = 2 => i # 1) /\ ~statuses[Old(i, k)].late /\ k < Old(i, k)
                /\ statuses'[i].late => k = 2 /\ i = 1 /\ Old(i, k) = 1
<1>1. statuses \in Seq(StatusMsg) /\ \A i \in DOMAIN statuses : statuses[i].late => i = 1
  BY DEF StatusInv
<1>2. \A p \in StatusMsg : Overtaken(p) \in StatusMsg
  BY DEF StatusMsg, Overtaken
<1>3. /\ statuses' \in Seq(StatusMsg) /\ Len(statuses') = Len(statuses) - 1
      /\ \A i \in 1..Len(statuses) - 1 :
            /\ Old(i, k) \in 1..Len(statuses)
            /\ statuses'[i] = IF k = 2 /\ i = 1 THEN Overtaken(statuses[1]) ELSE statuses[Old(i, k)]
  <2>1. statuses' \in Seq(StatusMsg) /\ Left(statuses, statuses', k)
    BY <1>1, <1>2, Remaining
  <2> QED
    BY <2>1 DEF Left
<1>4. \A p \in StatusMsg : Same(Overtaken(p), p) /\ Overtaken(p).late = TRUE
  BY DEF StatusMsg, Same, Overtaken
<1>5. ASSUME NEW i \in DOMAIN statuses'
      PROVE  /\ i \in Nat /\ i >= 1
             /\ Old(i, k) \in DOMAIN statuses /\ Same(statuses'[i], statuses[Old(i, k)])
             /\ ~statuses'[i].late => (k = 2 => i # 1) /\ ~statuses[Old(i, k)].late /\ k < Old(i, k)
             /\ statuses'[i].late => k = 2 /\ i = 1 /\ Old(i, k) = 1
  <2>1. i \in 1..Len(statuses) - 1 /\ i \in Nat /\ i >= 1
    BY <1>3
  <2>2. Old(i, k) \in DOMAIN statuses /\ statuses[Old(i, k)] \in StatusMsg
    BY <1>1, <1>3, <2>1
  <2>3. CASE k = 2 /\ i = 1
    <3>1. Old(i, k) = 1
      BY <2>3 DEF Old
    <3> QED
      BY <1>3, <1>4, <2>1, <2>2, <2>3, <3>1
  <2>4. CASE ~(k = 2 /\ i = 1)
    <3>1. statuses'[i] = statuses[Old(i, k)]
      BY <1>3, <2>1, <2>4
    <3>2. k < Old(i, k)
      BY <2>1, <2>4 DEF Old
    <3> QED
      BY <1>1, <2>1, <2>2, <2>4, <3>1, <3>2 DEF Same
  <2> QED
    BY <2>3, <2>4
<1> QED
  BY <1>3, <1>5

LEMMA AcceptableForm ==
    ASSUME TypeOK, NEW a \in 0..taken, TxInv(a), NEW e \in 0..taken
    PROVE  /\ a <= e => Acceptable(At(e))
           /\ e < a /\ a < e + Window => ~Acceptable(At(e))
<1>1. /\ taken \in Nat /\ taken <= a + Window /\ vtA = At(a) /\ vtS = At(taken)
      /\ Window \in Nat /\ Mod = Window + Window /\ Window > 0 /\ a \in Nat /\ e \in Nat
  BY TypeFacts, Sizes DEF TxInv
<1>2. (At(taken) - At(e)) % Mod = taken - e \/ ~(a <= e)
  BY <1>1, Ahead
<1>3. a <= e => (At(e) - At(a)) % Mod = e - a
  BY <1>1, Ahead
<1>4. e < a /\ a < e + Window => (At(e) - At(a)) % Mod = Mod - (a - e)
  BY <1>1, Behind
<1> QED
  BY <1>1, <1>2, <1>3, <1>4 DEF Acceptable

(* The status PDU that arrives, s: what it clears is a + 1..g2 and then    *)
(* what it does not ask for up to Upto(s).                                 *)
LEMMA StatusStarts ==
    ASSUME IInv, Reach < Window, NEW k \in 1..2, Arrives(statuses, k),
           NEW s, s = statuses[k], NEW a \in 0..taken, NEW g \in 0..taken, g = a,
           TxInv(a), StatusInv(g), StackInv(a, g), Acceptable(s.ack)
    PROVE  \E g2 \in 0..taken :
              /\ g2 = (IF s.late THEN a ELSE s.sdu)
              /\ a <= g2 /\ g2 <= Done /\ g2 <= Upto(s) /\ Waiting(g2 + 1)
              /\ \A n \in a + 1..g2 : At(n - 1) \notin s.nacks
              /\ g2 < Upto(s) => At(g2) \in s.nacks
              /\ \A n \in a + 1..Upto(s) : At(n - 1) \notin s.nacks => Received(n)
<1>1. TypeOK /\ Done \in Nat /\ taken \in Nat /\ Window \in Nat /\ taken <= a + Window /\ Window > 0
      /\ Mod = Window + Window
  BY TypeFacts, Sizes DEF IInv, TxInv
<1>2. k \in DOMAIN statuses /\ s \in StatusMsg /\ True(s)
  BY DEF Arrives, StatusInv
<1>3. /\ s.sdu \in Nat /\ Upto(s) \in Nat /\ s.sdu <= Upto(s) /\ s.sdu <= Done /\ Upto(s) <= taken
      /\ Upto(s) <= s.sdu + Window
      /\ s.ack = At(Upto(s)) /\ Upto(s) \in 0..taken /\ s.sdu \in 0..taken
  BY <1>1, <1>2, UptoForm DEF True
<1>4. CASE s.late
  <2>1. s.sdu <= a /\ a < s.sdu + Window /\ ~Acks(s, a + 1) /\ a <= Done /\ Waiting(a + 1)
    BY <1>2, <1>4 DEF StatusInv, StackInv
  <2>2. a <= Upto(s)
    <3>1. ~(Upto(s) < a /\ a < Upto(s) + Window)
      BY <1>1, <1>3, AcceptableForm
    <3> QED
      BY <1>1, <1>3, <2>1, <3>1
  <2>3. a < Upto(s) => At(a) \in s.nacks
    BY <1>1, <1>3, <2>1, (a + 1) - 1 = a DEF Acks
  <2>4. ASSUME NEW n \in a + 1..Upto(s), At(n - 1) \notin s.nacks PROVE Received(n)
    <3>1. n \in s.sdu + 1..Upto(s) /\ Acks(s, n)
      BY <1>1, <1>3, <2>1, <2>4 DEF Acks
    <3> QED
      BY <1>2, <3>1 DEF True
  <2>5. \A n \in a + 1..a : At(n - 1) \notin s.nacks
    BY <1>1
  <2> QED
    BY <1>4, <2>1, <2>2, <2>3, <2>4, <2>5
<1>5. CASE ~s.late
  <2>1. a <= s.sdu /\ Waiting(s.sdu + 1)
    BY <1>2, <1>5 DEF StatusInv
  <2>2. ASSUME NEW n \in a + 1..s.sdu, At(n - 1) \in s.nacks PROVE FALSE
    <3>1. PICK o \in s.sdu + 1..Upto(s) : At(n - 1) = At(o - 1)
      BY <1>2, <2>2 DEF True
    <3>2. n - 1 = o - 1
      BY <1>1, <1>3, <3>1, SameSn
    <3> QED
      BY <1>1, <1>3, <3>1, <3>2
  <2>3. s.sdu < Upto(s) => At(s.sdu) \in s.nacks
    <3>1. ~Acks(s, s.sdu + 1) /\ (s.sdu + 1) - 1 = s.sdu
      BY <1>2, <1>3 DEF True
    <3> QED
      BY <1>3, <3>1 DEF Acks
  <2>4. ASSUME NEW n \in a + 1..Upto(s), At(n - 1) \notin s.nacks PROVE Received(n)
    <3>1. CASE n <= s.sdu
      BY <1>1, <1>3, <3>1 DEF Received
    <3>2. CASE n > s.sdu
      <4>1. n \in s.sdu + 1..Upto(s) /\ Acks(s, n)
        BY <1>1, <1>3, <2>4, <3>2 DEF Acks
      <4> QED
        BY <1>2, <4>1 DEF True
    <3> QED
      BY <1>1, <1>3, <3>1, <3>2
  <2> QED
    BY <1>3, <1>5, <2>1, <2>2, <2>3, <2>4
<1> QED
  BY <1>4, <1>5

LEMMA ReceiveStatusSafe ==
    ASSUME IInv, ReceiveStatus, Reach < Window
    PROVE  RxInv' /\ DataInv' /\ \E a, g \in 0..taken' : Sides(a, g)'
<1>1. TypeOK /\ RxInv /\ DataInv
  BY DEF IInv
<1>2. PICK k \in 1..2 : /\ Arrives(statuses, k) /\ HandleStatus(statuses[k])
                        /\ statuses' = Without(statuses, k)
  BY DEF ReceiveStatus
<1>3. PICK s : s = statuses[k]
  OBVIOUS
<1>4. /\ UNCHANGED <<rxCore, txCore, data>> /\ taken' = taken /\ stackPc = "idle"
      /\ HandleStatus(s)
  BY <1>2, <1>3 DEF ReceiveStatus, HandleStatus, rxVars, rxCore, txCore
<1>5. Done \in Nat /\ taken \in Nat
  BY <1>1, TypeFacts
<1>6. PICK a, g \in 0..taken : TxInv(a) /\ StatusInv(g) /\ StackInv(a, g)
  BY DEF IInv
<1>7. RxInv' /\ Done' = Done /\ Grew /\ \A n \in Nat : Received(n)' <=> Received(n)
  BY <1>1, <1>4, <1>5, RxSame
<1>8. DataInv'
  BY <1>1, <1>4, <1>5, <1>7, DataSame
<1>9. \A n \in Nat : Waiting(n) => Waiting(n)'
  BY <1>4 DEF Waiting, txCore
<1>10. TxInv(a)'
  BY <1>1, <1>4, <1>5, <1>6, <1>7, TxSame
<1>11. g = a
  BY <1>4, <1>6 DEF StackInv
<1>12. /\ k \in DOMAIN statuses /\ s \in StatusMsg /\ True(s)
       /\ k = 2 => ~statuses[1].late /\ s.sdu - statuses[1].sdu <= Reach /\ 1 \in DOMAIN statuses
       /\ k = 2 => ~s.late
       /\ statuses \in Seq(StatusMsg)
  BY <1>2, <1>3, <1>6 DEF Arrives, StatusInv
<1>13. /\ s.sdu \in Nat /\ Upto(s) \in Nat /\ Upto(s) \in 0..taken /\ s.ack = At(Upto(s))
       /\ s.sdu <= Upto(s)
  BY <1>5, <1>12, UptoForm DEF True
<1>14. /\ statuses' \in Seq(StatusMsg)
       /\ \A i \in DOMAIN statuses' :
            /\ i \in Nat /\ i >= 1
            /\ Old(i, k) \in DOMAIN statuses /\ Same(statuses'[i], statuses[Old(i, k)])
            /\ ~statuses'[i].late => (k = 2 => i # 1) /\ ~statuses[Old(i, k)].late /\ k < Old(i, k)
            /\ statuses'[i].late => k = 2 /\ i = 1 /\ Old(i, k) = 1
  BY <1>2, <1>6, <1>12, StatusTaken
<1>15. k \in Nat
  OBVIOUS
<1>16. ASSUME NEW g2 \in 0..taken, s.late => g2 = g, ~s.late => g2 = s.sdu \/ (k = 1 /\ g2 = g),
              Waiting(g2 + 1)
       PROVE  StatusInv(g2)'
  <2>1. ASSUME NEW i \in DOMAIN statuses', statuses'[i].late
        PROVE  /\ i = 1 /\ statuses'[i].sdu <= g2 /\ g2 < statuses'[i].sdu + Window
               /\ ~Acks(statuses'[i], g2 + 1)
    <3>1. k = 2 /\ i = 1 /\ Old(i, k) = 1 /\ Same(statuses'[i], statuses[1]) /\ 1 \in DOMAIN statuses
      BY <1>14, <2>1
    <3>2. g2 = s.sdu /\ s.sdu - statuses[1].sdu <= Reach
      BY <1>12, <1>16, <3>1
    <3>3. statuses[1].sdu <= s.sdu /\ ~Acks(statuses[1], s.sdu + 1) /\ statuses[1].sdu \in Nat
      <4>1. statuses[1].sdu <= s.sdu /\ ~Acks(statuses[1], s.sdu + 1)
        BY <1>3, <1>6, <1>12, <3>1 DEF StatusInv
      <4>2. statuses[1] \in StatusMsg
        BY <1>12, <3>1
      <4> QED
        BY <4>1, <4>2, UptoForm
    <3>4. statuses'[i].sdu = statuses[1].sdu /\ \A n : Acks(statuses'[i], n) <=> Acks(statuses[1], n)
      BY <3>1, SameStatus DEF Same
    <3>5. Reach \in Nat /\ Window \in Nat
      BY RlcAssumption
    <3> QED
      BY <1>13, <3>1, <3>2, <3>3, <3>4, <3>5
  <2>2. ASSUME NEW i \in DOMAIN statuses', ~statuses'[i].late
        PROVE  /\ g2 <= statuses'[i].sdu
               /\ \A n \in Nat : n = statuses'[i].sdu + 1 => Waiting(n)'
    <3>1. /\ Old(i, k) \in DOMAIN statuses /\ ~statuses[Old(i, k)].late /\ k < Old(i, k)
          /\ statuses'[i].sdu = statuses[Old(i, k)].sdu
      BY <1>14, <2>2 DEF Same
    <3>2. /\ g <= statuses[Old(i, k)].sdu /\ Waiting(statuses[Old(i, k)].sdu + 1)
          /\ s.sdu <= statuses[Old(i, k)].sdu
      BY <1>3, <1>6, <1>12, <3>1 DEF StatusInv
    <3>3. \A n \in Nat : n = statuses'[i].sdu + 1 => Waiting(n)
      BY <3>1, <3>2
    <3> QED
      BY <1>9, <1>16, <3>1, <3>2, <3>3
  <2> QED
    BY <1>4, <1>5, <1>6, <1>7, <1>14, <1>15, <2>1, <2>2, StatusLeft
<1>17. CASE ~Acceptable(s.ack)
  <2>1. k = 1
    <3>1. CASE k = 2
      <4>1. g <= s.sdu
        BY <1>3, <1>6, <1>12, <3>1 DEF StatusInv
      <4>2. a <= Upto(s)
        BY <1>11, <1>13, <4>1, <1>5
      <4> QED
        BY <1>1, <1>6, <1>13, <1>17, <4>2, AcceptableForm
    <3> QED
      BY <3>1
  <2>2. StatusInv(g)'
    BY <1>6, <1>16, <2>1 DEF StackInv
  <2>3. stackPc' = "idle"
    BY <1>4, <1>17 DEF HandleStatus
  <2>4. StackInv(a, g)'
    BY <1>4, <1>6, <1>7, <1>9, <1>11, <2>3 DEF StackInv
  <2> QED
    BY <1>4, <1>7, <1>8, <1>10, <2>2, <2>4 DEF Sides
<1>18. CASE Acceptable(s.ack)
  <2>1. PICK g2 \in 0..taken :
              /\ g2 = (IF s.late THEN a ELSE s.sdu)
              /\ a <= g2 /\ g2 <= Done /\ g2 <= Upto(s) /\ Waiting(g2 + 1)
              /\ \A n \in a + 1..g2 : At(n - 1) \notin s.nacks
              /\ g2 < Upto(s) => At(g2) \in s.nacks
              /\ \A n \in a + 1..Upto(s) : At(n - 1) \notin s.nacks => Received(n)
    BY <1>2, <1>3, <1>6, <1>11, <1>18, StatusStarts
  <2>2. StatusInv(g2)'
    BY <1>11, <1>16, <2>1
  <2>3. /\ stackPc' = "status"
        /\ handling' = [ack |-> s.ack, nacks |-> s.nacks, i |-> vtA, end |-> vtS, move |-> TRUE]
    BY <1>4, <1>18 DEF HandleStatus
  <2>4. /\ handling'.ack = s.ack /\ handling'.nacks = s.nacks /\ handling'.i = At(a)
        /\ handling'.end = At(taken) /\ handling'.move = TRUE
    BY <1>6, <2>3 DEF TxInv
  <2>5. PICK e \in 0..taken : e = Upto(s)
    BY <1>13
  <2>6. ASSUME NEW i \in DOMAIN statuses', ~statuses'[i].late, statuses'[i].sdu < e
        PROVE  At(statuses'[i].sdu) \in s.nacks
    <3>1. /\ Old(i, k) \in DOMAIN statuses /\ k < Old(i, k)
          /\ statuses'[i].sdu = statuses[Old(i, k)].sdu
      BY <1>14, <2>6 DEF Same
    <3>2. ~Acks(s, statuses'[i].sdu + 1) /\ statuses'[i].sdu \in Nat
      <4>1. ~Acks(s, statuses'[i].sdu + 1)
        BY <1>3, <1>6, <1>12, <3>1 DEF StatusInv
      <4>2. statuses'[i] \in StatusMsg
        BY <1>14
      <4> QED
        BY <4>1, <4>2, UptoForm
    <3> QED
      BY <1>13, <2>5, <2>6, <3>2, (statuses'[i].sdu + 1) - 1 = statuses'[i].sdu DEF Acks
  <2>7. Handling(a, g2, e, a, taken)'
    <3>1. a <= e /\ e <= taken /\ taken \in Nat
      BY <1>5, <1>13, <2>1, <2>5
    <3>2. \A n \in a + 1..e : At(n - 1) \notin s.nacks => Received(n)'
      BY <1>7, <2>1, <2>5 DEF Grew
    <3> QED
      BY <1>4, <1>13, <2>1, <2>4, <2>5, <2>6, <3>1, <3>2 DEF Handling
  <2>8. StackInv(a, g2)'
    <3>1. PICK f \in 0..taken : f = taken
      BY <1>5
    <3>2. Handling(a, g2, e, a, f)'
      BY <1>4, <2>7, <3>1
    <3> QED
      BY <1>4, <1>5, <1>7, <1>9, <2>1, <2>3, <3>2 DEF StackInv
  <2> QED
    BY <1>4, <1>7, <1>8, <1>10, <2>1, <2>2, <2>8 DEF Sides
<1> QED
  BY <1>17, <1>18

-----------------------------------------------------------------------------
(* The receive window between the SDUs delivered and the highest received. *)
Filled(w, d, h) ==
    /\ w \in [Sns -> Nat] /\ d \in Nat /\ h \in d..d + Window
    /\ \A sn \in Sns : w[sn] # 0 => w[sn] \in d + 1..h /\ sn = At(w[sn] - 1)

LEMMA FilledForm ==
    ASSUME NEW w, NEW d, NEW h, Filled(w, d, h)
    PROVE  w[At(h)] = 0 /\ \A i \in d..h : At(i) \in Sns /\ w[At(i)] \in {0, i + 1}
<1>1. d \in Nat /\ h \in Nat /\ h <= d + Window /\ d <= h /\ Window \in Nat /\ Mod = Window + Window /\ Window > 0
  BY Sizes DEF Filled
<1>2. ASSUME NEW i \in d..h, w[At(i)] # 0 PROVE w[At(i)] = i + 1 /\ i # h
  <2>1. i \in Int /\ At(i) \in Sns
    BY <1>1, AtForm
  <2>2. w[At(i)] \in d + 1..h /\ At(i) = At(w[At(i)] - 1)
    BY <1>2, <2>1 DEF Filled
  <2>3. PICK v \in d + 1..h : v = w[At(i)]
    BY <2>2
  <2>4. i = v - 1
    BY <1>1, <1>2, <2>1, <2>2, <2>3, SameSn
  <2> QED
    BY <1>1, <2>3, <2>4
<1>3. \A i \in d..h : At(i) \in Sns
  BY <1>1, AtForm
<1> QED
  BY <1>1, <1>2, <1>3

(* The first PDU from p on that is missing. *)
LEMMA GapForm ==
    ASSUME NEW w, NEW d, NEW h, Filled(w, d, h), NEW p \in d..h
    PROVE  \E q \in p..h : /\ Gap(w, At(p)) = At(q) /\ w[At(q)] = 0
                           /\ \A i \in p..q - 1 : w[At(i)] = i + 1
<1>1. /\ d \in Nat /\ h \in Nat /\ h <= d + Window /\ d <= h /\ p \in Nat
      /\ Window \in Nat /\ Mod = Window + Window /\ Window > 0
  BY Sizes DEF Filled
<1> DEFINE S == {i \in p..h : w[At(i)] = 0}
<1>2. h \in S /\ S \in SUBSET Nat
  BY <1>1, FilledForm
<1>3. PICK q \in S : \A i \in S : q <= i
  BY <1>2, Least
<1>4. q \in p..h /\ w[At(q)] = 0 /\ q \in Nat
  BY <1>1, <1>3
<1>5. \A i \in p..q - 1 : w[At(i)] # 0 /\ w[At(i)] = i + 1
  <2> SUFFICES ASSUME NEW i \in p..q - 1 PROVE w[At(i)] # 0 /\ w[At(i)] = i + 1
    OBVIOUS
  <2>1. i \in p..h /\ i \in d..h /\ ~(q <= i)
    BY <1>1, <1>4
  <2>2. w[At(i)] # 0
    BY <1>3, <2>1
  <2> QED
    BY <2>1, <2>2, FilledForm
<1> HIDE DEF S
<1> DEFINE Q(n) == w[(At(p) + n) % Mod] = 0 /\ \A k \in 0..n - 1 : w[(At(p) + k) % Mod] # 0
<1>6. \A n \in Int : (At(p) + n) % Mod = At(p + n)
  BY <1>1, OnFrom
<1>7. q - p \in 0..Mod - 1 /\ Q(q - p)
  <2>1. q - p \in 0..Mod - 1 /\ p + (q - p) = q
    BY <1>1, <1>4
  <2>2. \A k \in 0..(q - p) - 1 : p + k \in p..q - 1
    BY <1>1, <1>4
  <2> QED
    BY <1>4, <1>5, <1>6, <2>1, <2>2
<1>8. ASSUME NEW n \in 0..Mod - 1, Q(n) PROVE n = q - p
  <2>1. n < q - p => FALSE
    <3>1. ASSUME n < q - p PROVE p + n \in p..q - 1
      BY <1>1, <1>4, <3>1
    <3> QED
      BY <1>5, <1>6, <1>8, <3>1
  <2>2. n > q - p => FALSE
    <3>1. ASSUME n > q - p PROVE q - p \in 0..n - 1 /\ p + (q - p) = q
      BY <1>1, <1>4, <3>1
    <3> QED
      BY <1>4, <1>6, <1>8, <3>1
  <2> QED
    BY <1>1, <1>4, <2>1, <2>2
<1>9. (CHOOSE n \in 0..Mod - 1 : Q(n)) = q - p
  BY <1>7, <1>8
<1>10. Gap(w, At(p)) = (At(p) + (q - p)) % Mod
  BY <1>9 DEF Gap
<1>11. Gap(w, At(p)) = At(q)
  BY <1>1, <1>4, <1>6, <1>10, p + (q - p) = q
<1> QED
  BY <1>4, <1>5, <1>11

LEMMA RxFilled ==
    ASSUME TypeOK, NEW h \in 0..taken, NEW m \in 0..taken, NEW x \in 0..taken, RxAt(h, m, x)
    PROVE  Filled(rxWin, Done, h)
<1>1. Done \in Nat /\ taken \in Nat /\ Window \in Nat /\ h \in Nat
  BY TypeFacts, Sizes
<1>2. rxWin \in [Sns -> Nat]
  BY RlcAssumption DEF TypeOK
<1>3. Done <= h /\ h <= Done + Window /\ h \in Done..Done + Window
  BY <1>1 DEF RxAt
<1>4. ASSUME NEW sn \in Sns, rxWin[sn] # 0 PROVE rxWin[sn] \in Done + 1..h /\ sn = At(rxWin[sn] - 1)
  BY <1>1, <1>4 DEF RxAt
<1> QED
  BY <1>1, <1>2, <1>3, <1>4 DEF Filled

(* The timer gives up what is missing before vr_x. *)
LEMMA ReorderingExpiresSafe ==
    ASSUME IInv, ReorderingExpires
    PROVE  RxInv' /\ DataInv' /\ \E a, g \in 0..taken' : Sides(a, g)'
<1>1. TypeOK /\ RxInv /\ DataInv
  BY DEF IInv
<1>2. /\ UNCHANGED <<vrR, vrH, rxWin, delivered, txCore, data, statuses, stackVars>>
      /\ reordering /\ taken' = taken /\ vrMs' = Gap(rxWin, vrX)
      /\ \/ vrX' = vrH /\ reordering' = reordering /\ RxBase(vrH) > RxBase(vrMs')
         \/ reordering' = FALSE
  BY DEF ReorderingExpires, txVars, txCore, airVars
<1>3. Done \in Nat /\ taken \in Nat /\ Done' = Done
  BY <1>1, <1>2, TypeFacts DEF Done
<1>4. PICK h, m, x \in 0..taken : RxAt(h, m, x)
  BY <1>1 DEF RxInv
<1>5. x \in Done..h /\ vrX = At(x) /\ Done < x /\ x <= h /\ Filled(rxWin, Done, h)
  BY <1>1, <1>2, <1>3, <1>4, RxFilled DEF RxAt
<1>6. PICK q \in x..h : Gap(rxWin, At(x)) = At(q) /\ rxWin[At(q)] = 0
  BY <1>5, GapForm
<1>7. RxAt(h, q, h)' \/ RxAt(h, q, x)'
  <2>1. /\ Done' <= q /\ q <= h /\ h <= taken' /\ h <= Done' + Window
        /\ vrR' = At(Done') /\ vrMs' = At(q) /\ vrH' = At(h)
        /\ rxWin'[At(Done')] = 0 /\ rxWin'[At(q)] = 0
    BY <1>2, <1>3, <1>4, <1>5, <1>6 DEF RxAt
  <2>2. \A sn \in Sns : rxWin'[sn] # 0 => rxWin'[sn] \in Done' + 2..h /\ sn = At(rxWin'[sn] - 1)
    BY <1>2, <1>3, <1>4 DEF RxAt
  <2>3. CASE vrX' = vrH
    <3>1. vrX' = At(h) /\ Done' < h
      BY <1>3, <1>4, <1>5, <2>3 DEF RxAt
    <3>2. RxAt(h, q, h)'
      BY <1>4, <2>1, <2>2, <3>1 DEF RxAt
    <3> QED
      BY <3>2
  <2>4. CASE reordering' = FALSE
    <3>1. RxAt(h, q, x)'
      BY <2>1, <2>2, <2>4 DEF RxAt
    <3> QED
      BY <3>1
  <2> QED
    BY <1>2, <2>3, <2>4
<1>8. delivered' = [i \in 1..Done' |-> i]
  BY <1>1, <1>2, <1>3 DEF RxInv
<1>9. RxInv'
  BY <1>2, <1>3, <1>4, <1>5, <1>6, <1>7, <1>8 DEF RxInv
<1>10. Grew /\ \A n \in Nat : Received(n)' <=> Received(n)
  BY <1>2, <1>3 DEF Grew, Received
<1>11. DataInv'
  BY <1>1, <1>2, <1>3, <1>10, DataSame
<1>12. PICK a, g \in 0..taken : TxInv(a) /\ StatusInv(g) /\ StackInv(a, g)
  BY DEF IInv
<1>13. \A n \in Nat : Waiting(n) => Waiting(n)'
  BY <1>2 DEF Waiting, txCore
<1>14. TxInv(a)'
  BY <1>1, <1>2, <1>3, <1>10, <1>12, TxSame
<1>15. StatusInv(g)'
  BY <1>2, <1>3, <1>10, <1>12, <1>13, StatusSame
<1>16. StackInv(a, g)'
  BY <1>1, <1>2, <1>3, <1>10, <1>12, <1>13, StackSame
<1> QED
  BY <1>2, <1>9, <1>11, <1>14, <1>15, <1>16 DEF Sides

(* A PDU that is inside the window is of the window: not an old one.       *)
LEMMA InsideForm ==
    ASSUME TypeOK, RxInv, NEW n \in 1..taken, taken <= Done + Window,
           \A v \in Nat : v >= n + Window => ~Received(v), Inside(At(n - 1))
    PROVE  n > Done
<1>1. /\ Done \in Nat /\ taken \in Nat /\ n \in Nat /\ n <= taken
      /\ Window \in Nat /\ Mod = Window + Window /\ Window > 0
  BY TypeFacts, Sizes
<1>2. vrR = At(Done)
  BY DEF RxInv, RxAt
<1>3. Done < n + Window
  BY <1>1 DEF Received
<1>4. SUFFICES ASSUME n <= Done PROVE FALSE
  BY <1>1
<1>5. (At(n - 1) - At(Done)) % Mod = Mod - (Done - (n - 1))
  BY <1>1, <1>3, <1>4, Behind
<1> QED
  BY <1>1, <1>2, <1>3, <1>4, <1>5 DEF Inside, RxBase

(* The windows before and after: p is put in, then what has no PDU missing *)
(* before it is delivered.                                                 *)
Put(n)       == [rxWin EXCEPT ![At(n - 1)] = n]
Higher(h, n) == IF h < n THEN n ELSE h
Taken(w, c)  == [k \in 1..c |-> w[(vrR + k - 1) % Mod]]

LEMMA AcceptWindow ==
    ASSUME TypeOK, RxInv, NEW h \in 0..taken, NEW m \in 0..taken, NEW x \in 0..taken, RxAt(h, m, x),
           NEW n \in Done + 1..taken, taken <= Done + Window, rxWin[At(n - 1)] = 0,
           NEW w, w = Put(n), NEW high, high = Higher(h, n)
    PROVE  /\ Filled(w, Done, high) /\ high \in 0..taken /\ h <= high
           /\ \A v \in Nat : v > Done => (w[At(v - 1)] = v <=> rxWin[At(v - 1)] = v \/ v = n)
<1>1. /\ Done \in Nat /\ taken \in Nat /\ n \in Nat /\ h \in Nat /\ Window \in Nat
      /\ high \in 0..taken /\ h <= high /\ n <= high /\ Done <= h /\ h <= Done + Window
  <2>1. Done \in Nat /\ taken \in Nat /\ Window \in Nat
    BY TypeFacts, Sizes
  <2>2. Done <= h /\ h <= Done + Window
    BY <2>1 DEF RxAt
  <2> QED
    BY <2>1, <2>2 DEF Higher
<1>2. Filled(rxWin, Done, h)
  BY RxFilled
<1>3. At(n - 1) \in Sns /\ \A v \in Nat : At(v - 1) \in Sns
  BY <1>1, AtForm
<1>4. w \in [Sns -> Nat] /\ \A sn \in Sns : w[sn] = IF sn = At(n - 1) THEN n ELSE rxWin[sn]
  BY <1>1, <1>2, <1>3 DEF Filled, Put
<1>5. high \in Done..Done + Window
  BY <1>1 DEF Higher
<1>6. ASSUME NEW sn \in Sns, w[sn] # 0 PROVE w[sn] \in Done + 1..high /\ sn = At(w[sn] - 1)
  <2>1. CASE sn = At(n - 1)
    BY <1>1, <1>4, <2>1
  <2>2. CASE sn # At(n - 1)
    <3>1. rxWin[sn] \in Done + 1..h /\ sn = At(rxWin[sn] - 1) /\ w[sn] = rxWin[sn]
      BY <1>2, <1>4, <1>6, <2>2 DEF Filled
    <3> QED
      BY <1>1, <3>1
  <2> QED
    BY <2>1, <2>2
<1>7. Filled(w, Done, high)
  BY <1>1, <1>4, <1>5, <1>6 DEF Filled
<1>8. ASSUME NEW v \in Nat, v > Done
      PROVE  w[At(v - 1)] = v <=> rxWin[At(v - 1)] = v \/ v = n
  <2>1. CASE At(v - 1) = At(n - 1)
    BY <1>1, <1>3, <1>4, <1>8, <2>1
  <2>2. CASE At(v - 1) # At(n - 1)
    BY <1>3, <1>4, <2>2
  <2> QED
    BY <2>1, <2>2
<1> QED
  BY <1>1, <1>7, <1>8

(* What is delivered: the SDUs up to d, in order. *)
LEMMA DeliveredForm ==
    ASSUME TypeOK, RxInv, NEW w, NEW high, Filled(w, Done, high), NEW d \in Done..high,
           \A i \in Done..d - 1 : w[At(i)] = i + 1, vrR = At(Done), NEW c, c = d - Done
    PROVE  delivered \o Taken(w, c) = [i \in 1..d |-> i]
<1>1. Done \in Nat /\ d \in Nat /\ high \in Nat /\ c \in Nat /\ Done + c = d
  BY TypeFacts DEF Filled
<1> DEFINE more == Taken(w, c)
           all  == [i \in 1..d |-> i]
<1>2. ASSUME NEW k \in 1..c PROVE more[k] = Done + k
  <2>1. k \in Int /\ Done + (k - 1) \in Done..d - 1 /\ (Done + (k - 1)) + 1 = Done + k
    BY <1>1
  <2>2. (At(Done) + (k - 1)) % Mod = At(Done + (k - 1))
    BY <1>1, <2>1, OnFrom
  <2>3. vrR + k - 1 = At(Done) + (k - 1)
    BY <1>1, <2>1, AtForm, Sizes
  <2>4. more[k] = w[At(Done + (k - 1))]
    BY <2>2, <2>3 DEF Taken
  <2>5. w[At(Done + (k - 1))] = Done + k
    BY <2>1
  <2> QED
    BY <2>4, <2>5
<1>3. delivered \in Seq(Nat) /\ Len(delivered) = Done /\ \A i \in 1..Done : delivered[i] = i
  <2>1. delivered = [i \in 1..Done |-> i] /\ Len(delivered) = Done
    BY DEF RxInv, Done
  <2> HIDE DEF Done
  <2> QED
    BY <1>1, <2>1
<1>4. more \in Seq(Nat) /\ Len(more) = c
  <2>1. \A k \in 1..c : more[k] \in Nat
    BY <1>1, <1>2
  <2>2. more = [k \in 1..c |-> more[k]]
    BY DEF Taken
  <2> QED
    BY <1>1, <2>1, <2>2
<1> HIDE DEF more
<1>5. (delivered \o more) \in Seq(Nat) /\ Len(delivered \o more) = d
  <2>1. delivered \o more \in Seq(Nat) /\ Len(delivered \o more) = Len(delivered) + Len(more)
    BY <1>3, <1>4, Joined
  <2> QED
    BY <1>1, <1>3, <1>4, <2>1
<1>6. ASSUME NEW i \in 1..d PROVE (delivered \o more)[i] = i
  <2>1. CASE i <= Done
    BY <1>1, <1>3, <1>4, <2>1
  <2>2. CASE i > Done
    <3>1. i - Done \in 1..c /\ Done + (i - Done) = i
      BY <1>1, <2>2
    <3>2. (delivered \o more)[i] = more[i - Done]
      BY <1>1, <1>3, <1>4, <2>2
    <3> QED
      BY <1>2, <3>1, <3>2
  <2>3. i <= Done \/ i > Done
    BY <1>1
  <2> QED
    BY <2>1, <2>2, <2>3
<1>7. all \in Seq(Nat) /\ Len(all) = d /\ \A i \in 1..d : all[i] = i
  BY <1>1
<1> HIDE DEF all
<1>8. delivered \o more = all
  BY <1>1, <1>5, <1>6, <1>7, SMTT(30)
<1> QED
  BY <1>8 DEF more, all

(* Whether t-Reordering goes on. *)
LEMMA GoesOnForm ==
    ASSUME NEW x \in Nat, NEW d \in Nat, NEW b \in Nat, b < x, b <= d, d <= b + Window,
           At(x) # At(d), ((At(x) - At(d)) % Mod < Window \/ At(x) = (At(d) + Window) % Mod)
    PROVE  d < x
<1>1. Window \in Nat /\ Mod = Window + Window /\ Window > 0
  BY Sizes
<1>2. SUFFICES ASSUME x < d PROVE FALSE
  BY <1>1
<1>3. (At(x) - At(d)) % Mod = Mod - (d - x)
  BY <1>1, <1>2, Behind
<1>4. (At(d) + Window) % Mod = At(d + Window)
  BY <1>1, OnFrom
<1>5. At(x) # At(d + Window)
  <2>1. x # d + Window /\ x < (d + Window) + Mod /\ d + Window < x + Mod /\ d + Window \in Int
    BY <1>1, <1>2
  <2> QED
    BY <2>1, SameSn
<1> QED
  BY <1>1, <1>2, <1>3, <1>4, <1>5

LEMMA AcceptForm ==
    ASSUME NEW p, Accept(p)
    PROVE  LET w      == [rxWin EXCEPT ![p.sn] = p.sdu]
               r      == Gap(w, vrR)
               hi     == IF RxBase(p.sn) >= RxBase(vrH) THEN Next1(p.sn) ELSE vrH
               c      == (r - vrR) % Mod
               goesOn == reordering /\ vrX # r
                           /\ ((vrX - r) % Mod < Window \/ vrX = (r + Window) % Mod)
           IN  /\ vrH' = hi /\ vrMs' = Gap(w, vrMs) /\ vrR' = r
               /\ delivered' = delivered \o Taken(w, c)
               /\ rxWin' = [sn \in Sns |-> IF RxBase(sn) < c THEN 0 ELSE w[sn]]
               /\ reordering' => goesOn \/ hi # r
               /\ ~goesOn /\ hi # r => vrX' = hi
               /\ goesOn => vrX' = vrX
<1>1. reordering' => reordering' = TRUE
  OBVIOUS
<1> QED
  BY <1>1 DEF Accept, Reassembled, Taken

LEMMA AcceptSafe ==
    ASSUME TypeOK, RxInv, UNCHANGED taken, taken <= Done + Window,
           NEW p, p.sdu \in 1..taken, p.sn = At(p.sdu - 1), Young(p),
           Inside(p.sn), rxWin[p.sn] = 0, Accept(p)
    PROVE  /\ RxInv' /\ Done' \in Nat /\ Grew
           /\ \A v \in Nat : Received(v)' => Received(v) \/ v = p.sdu
<1>1. PICK h, m, x \in 0..taken : RxAt(h, m, x)
  BY DEF RxInv
<1>2. /\ Done \in Nat /\ taken \in Nat /\ h \in Nat /\ m \in Nat /\ x \in Nat
      /\ Window \in Nat /\ Mod = Window + Window /\ Window > 0
  BY TypeFacts, Sizes
<1>3. /\ Done <= m /\ m <= h /\ h <= taken /\ h <= Done + Window
      /\ vrR = At(Done) /\ vrMs = At(m) /\ vrH = At(h) /\ rxWin[At(m)] = 0
      /\ reordering => vrX = At(x) /\ Done < x /\ x <= h
  BY <1>1 DEF RxAt
<1>4. PICK n \in 1..taken : n = p.sdu
  OBVIOUS
<1>5. n \in Done + 1..taken /\ p.sn = At(n - 1) /\ rxWin[At(n - 1)] = 0
  <2>1. p.sn = At(n - 1) /\ rxWin[At(n - 1)] = 0 /\ Inside(At(n - 1))
    BY <1>4
  <2>2. \A v \in Nat : v >= n + Window => ~Received(v)
    BY <1>4 DEF Young
  <2>3. n > Done
    BY <2>1, <2>2, InsideForm
  <2> QED
    BY <1>2, <2>1, <2>3
<1>6. PICK w : w = Put(n)
  OBVIOUS
<1>7. PICK high : high = Higher(h, n)
  OBVIOUS
<1>8. /\ Filled(w, Done, high) /\ high \in 0..taken /\ h <= high
      /\ \A v \in Nat : v > Done => (w[At(v - 1)] = v <=> rxWin[At(v - 1)] = v \/ v = n)
  BY <1>1, <1>5, <1>6, <1>7, AcceptWindow
<1>9. (IF RxBase(p.sn) >= RxBase(vrH) THEN Next1(p.sn) ELSE vrH) = At(high)
  <2>1. RxBase(At(n - 1)) = (n - 1) - Done /\ RxBase(At(h)) = h - Done
    BY <1>2, <1>3, <1>5, Ahead DEF RxBase
  <2>2. Next1(At(n - 1)) = At(n)
    BY <1>2, <1>5, NextSn, (n - 1) + 1 = n
  <2> QED
    BY <1>2, <1>3, <1>5, <1>7, <2>1, <2>2 DEF Higher
<1>10. PICK d \in Done..high : /\ Gap(w, At(Done)) = At(d) /\ w[At(d)] = 0
                               /\ \A i \in Done..d - 1 : w[At(i)] = i + 1
  BY <1>2, <1>3, <1>8, GapForm
<1>11. PICK m2 \in m..high : Gap(w, At(m)) = At(m2) /\ w[At(m2)] = 0
  BY <1>2, <1>3, <1>8, GapForm
<1>12. d \in Nat /\ m2 \in Nat /\ high \in Nat /\ high <= Done + Window /\ Done <= d /\ d <= high
  BY <1>2, <1>3, <1>5, <1>7, <1>8, <1>10, <1>11 DEF Higher
<1>13. d <= m2
  <2> SUFFICES ASSUME m2 < d PROVE FALSE
    BY <1>12
  <2>1. m2 \in Done..d - 1
    BY <1>2, <1>3, <1>11, <1>12
  <2> QED
    BY <1>10, <1>11, <1>12, <2>1
<1>14. PICK c \in Nat : c = d - Done /\ c = (At(d) - At(Done)) % Mod
  <2>1. (At(d) - At(Done)) % Mod = d - Done
    BY <1>2, <1>12, Ahead
  <2> QED
    BY <1>2, <1>12, <2>1
<1> DEFINE goesOn == reordering /\ vrX # At(d)
                       /\ ((vrX - At(d)) % Mod < Window \/ vrX = (At(d) + Window) % Mod)
<1>15. /\ vrH' = At(high) /\ vrMs' = At(m2) /\ vrR' = At(d)
       /\ delivered' = delivered \o Taken(w, c)
       /\ rxWin' = [sn \in Sns |-> IF RxBase(sn) < c THEN 0 ELSE w[sn]]
       /\ reordering' => goesOn \/ At(high) # At(d)
       /\ ~goesOn /\ At(high) # At(d) => vrX' = At(high)
       /\ goesOn => vrX' = vrX
  <2>1. w = [rxWin EXCEPT ![p.sn] = p.sdu]
    BY <1>4, <1>5, <1>6 DEF Put
  <2>2. At(d) = Gap(w, vrR) /\ At(m2) = Gap(w, vrMs) /\ c = (At(d) - vrR) % Mod
    BY <1>3, <1>10, <1>11, <1>14
  <2> DEFINE hi == IF RxBase(p.sn) >= RxBase(vrH) THEN Next1(p.sn) ELSE vrH
             f  == [rxWin EXCEPT ![p.sn] = p.sdu]
             r  == Gap(f, vrR)
             n0 == (r - vrR) % Mod
             on == reordering /\ vrX # r
                     /\ ((vrX - r) % Mod < Window \/ vrX = (r + Window) % Mod)
  <2>3. /\ vrH' = hi /\ vrMs' = Gap(f, vrMs) /\ vrR' = r
        /\ delivered' = delivered \o Taken(f, n0)
        /\ rxWin' = [sn \in Sns |-> IF RxBase(sn) < n0 THEN 0 ELSE f[sn]]
        /\ reordering' => on \/ hi # r
        /\ ~on /\ hi # r => vrX' = hi
        /\ on => vrX' = vrX
    BY AcceptForm, Zenon
  <2>4. f = w /\ hi = At(high)
    BY <1>9, <2>1
  <2> HIDE DEF f, hi
  <2>5. r = At(d) /\ n0 = c
    BY <2>2, <2>4
  <2>6. on <=> goesOn
    BY <2>5
  <2> HIDE DEF r, n0, on
  <2> QED
    BY <2>2, <2>3, <2>4, <2>5, <2>6
<1>16. delivered' = [i \in 1..d |-> i] /\ Done' = d
  <2>1. delivered \o Taken(w, c) = [i \in 1..d |-> i]
    BY <1>3, <1>8, <1>10, <1>14, DeliveredForm, ZenonT(60)
  <2>2. Len([i \in 1..d |-> i]) = d
    BY <1>12
  <2> QED
    BY <1>15, <2>1, <2>2 DEF Done
<1>17. PICK y \in 0..taken : reordering' => vrX' = At(y) /\ d < y /\ y <= high
  <2>1. CASE goesOn
    <3>1. vrX = At(x) /\ Done < x /\ x <= h
      BY <1>3, <2>1
    <3>2. d < x
      BY <1>2, <1>12, <2>1, <3>1, GoesOnForm
    <3>3. vrX' = At(x) /\ x <= high
      BY <1>2, <1>8, <1>12, <1>15, <2>1, <3>1
    <3> QED
      BY <3>2, <3>3
  <2>2. CASE ~goesOn
    <3> HIDE DEF goesOn
    <3>1. reordering' => vrX' = At(high) /\ d < high
      BY <1>12, <1>15, <2>2
    <3> QED
      BY <1>8, <1>12, <3>1
  <2> QED
    BY <2>1, <2>2
<1> HIDE DEF goesOn
<1>18. /\ \A sn \in Sns : rxWin'[sn] = IF RxBase(sn) < c THEN 0 ELSE w[sn]
       /\ \A i \in Done..high : /\ At(i) \in Sns /\ RxBase(At(i)) = i - Done
                                /\ rxWin'[At(i)] = IF i < d THEN 0 ELSE w[At(i)]
  <2>1. \A sn \in Sns : rxWin'[sn] = IF RxBase(sn) < c THEN 0 ELSE w[sn]
    BY <1>15
  <2>2. ASSUME NEW i \in Done..high
        PROVE  At(i) \in Sns /\ RxBase(At(i)) = i - Done /\ rxWin'[At(i)] = IF i < d THEN 0 ELSE w[At(i)]
    <3>1. At(i) \in Sns /\ RxBase(At(i)) = i - Done
      BY <1>2, <1>3, <1>12, AtForm, Ahead DEF RxBase
    <3> QED
      BY <1>2, <1>12, <1>14, <2>1, <3>1
  <2> QED
    BY <2>1, <2>2
<1>19. ASSUME NEW sn \in Sns, rxWin'[sn] # 0
       PROVE  rxWin'[sn] \in d + 2..high /\ sn = At(rxWin'[sn] - 1)
  <2>1. rxWin'[sn] = w[sn] /\ ~(RxBase(sn) < c)
    BY <1>18, <1>19
  <2>2. w[sn] \in Done + 1..high /\ sn = At(w[sn] - 1)
    BY <1>8, <1>19, <2>1 DEF Filled
  <2>3. PICK v \in Done + 1..high : v = w[sn]
    BY <2>2
  <2>4. v - 1 \in Done..high /\ ~((v - 1) - Done < c)
    BY <1>2, <1>12, <1>18, <2>1, <2>2, <2>3
  <2>5. v - 1 # d
    BY <1>10, <1>19, <2>1, <2>2, <2>3
  <2> QED
    BY <1>2, <1>12, <1>14, <2>1, <2>2, <2>3, <2>4, <2>5
<1>20. RxAt(high, m2, y)'
  <2>1. rxWin'[At(d)] = 0 /\ rxWin'[At(m2)] = 0
    <3>1. m2 \in Done..high /\ d \in Done..high
      BY <1>2, <1>3, <1>11, <1>12
    <3> QED
      BY <1>10, <1>11, <1>18, <3>1
  <2>2. d <= m2 /\ m2 <= high /\ high <= taken' /\ high <= d + Window
    BY <1>2, <1>8, <1>11, <1>12, <1>13
  <2> QED
    BY <1>15, <1>16, <1>17, <1>19, <2>1, <2>2 DEF RxAt
<1>21. RxInv'
  <2>1. m2 \in 0..taken' /\ high \in 0..taken' /\ y \in 0..taken'
    BY <1>2, <1>8, <1>11, <1>12
  <2> QED
    BY <1>16, <1>20, <2>1 DEF RxInv
<1>22. ASSUME NEW v \in Nat PROVE Received(v)' <=> Received(v) \/ v = n
  <2>1. CASE v <= Done
    BY <1>2, <1>12, <1>16, <2>1 DEF Received
  <2>2. CASE v > Done
    <3>1. Received(v) <=> rxWin[At(v - 1)] = v
      BY <1>2, <2>2 DEF Received
    <3>2. w[At(v - 1)] = v <=> Received(v) \/ v = n
      BY <1>8, <2>2, <3>1
    <3>3. At(v - 1) \in Sns /\ v # 0
      BY <1>2, <2>2, AtForm
    <3>4. CASE v <= d
      <4>1. v - 1 \in Done..d - 1 /\ (v - 1) + 1 = v
        BY <1>2, <1>12, <2>2, <3>4
      <4>2. w[At(v - 1)] = v
        BY <1>10, <4>1
      <4> QED
        BY <1>16, <3>2, <3>4, <4>2 DEF Received
    <3>5. CASE v > d
      <4>1. Received(v)' <=> rxWin'[At(v - 1)] = v
        BY <1>12, <1>16, <3>5 DEF Received
      <4>2. rxWin'[At(v - 1)] = v => w[At(v - 1)] = v
        BY <1>18, <3>3
      <4>3. w[At(v - 1)] = v => v - 1 \in Done..high /\ ~(v - 1 < d)
        BY <1>2, <1>8, <1>12, <2>2, <3>3, <3>5 DEF Filled
      <4> QED
        BY <1>18, <3>2, <4>1, <4>2, <4>3
    <3> QED
      BY <1>12, <3>4, <3>5
  <2> QED
    BY <1>2, <2>1, <2>2
<1> QED
  BY <1>4, <1>12, <1>16, <1>21, <1>22 DEF Grew

(* What is left of the data PDUs once one has been lost or received. *)
LEMMA DataLeft ==
    ASSUME DataInv, NEW k \in Nat, data' \in Seq(DataPdu), UNCHANGED taken,
           \A i \in DOMAIN data' : /\ Old(i, k) \in DOMAIN data
                                   /\ data'[i].sdu = data[Old(i, k)].sdu
                                   /\ data'[i].sn = data[Old(i, k)].sn,
           \A i \in DOMAIN data', v \in Nat : v >= data'[i].sdu + Window => ~Received(v)'
    PROVE  DataInv'
<1>1. ASSUME NEW i \in DOMAIN data'
      PROVE  data'[i].sdu \in 1..taken' /\ data'[i].sn = At(data'[i].sdu - 1)
  BY DEF DataInv
<1>2. ASSUME NEW i \in DOMAIN data', NEW j \in DOMAIN data', i < j
      PROVE  data'[i].sdu < data'[j].sdu + Window
  <2>1. i \in Nat /\ j \in Nat
    OBVIOUS
  <2>2. Old(i, k) < Old(j, k)
    BY <1>2, <2>1, OldForm
  <2> QED
    BY <2>2 DEF DataInv
<1> QED
  BY <1>1, <1>2 DEF DataInv, Young

LEMMA LoseDataSafe ==
    ASSUME IInv, LoseData
    PROVE  RxInv' /\ DataInv' /\ \E a, g \in 0..taken' : Sides(a, g)'
<1>1. TypeOK /\ RxInv /\ DataInv
  BY DEF IInv
<1>2. PICK k \in DOMAIN data : data' = RemoveAt(data, k)
  BY DEF LoseData
<1>3. UNCHANGED <<rxCore, txCore, statuses, stackVars>> /\ taken' = taken
  BY DEF LoseData, rxVars, rxCore, txVars, txCore
<1>4. Done \in Nat /\ taken \in Nat
  BY <1>1, TypeFacts
<1>5. PICK a, g \in 0..taken : TxInv(a) /\ StatusInv(g) /\ StackInv(a, g)
  BY DEF IInv
<1>6. RxInv' /\ Done' = Done /\ Grew /\ \A n \in Nat : Received(n)' <=> Received(n)
  BY <1>1, <1>3, <1>4, RxSame
<1>7. /\ data' \in Seq(DataPdu) /\ k \in Nat
      /\ \A i \in DOMAIN data' : Old(i, k) \in DOMAIN data /\ data'[i] = data[Old(i, k)]
  <2>1. data \in Seq(DataPdu) /\ k \in 1..Len(data)
    BY <1>1 DEF DataInv
  <2>2. /\ RemoveAt(data, k) \in Seq(DataPdu) /\ Len(RemoveAt(data, k)) = Len(data) - 1
        /\ \A i \in 1..Len(data) - 1 :
              Old(i, k) \in 1..Len(data) /\ RemoveAt(data, k)[i] = data[Old(i, k)]
    BY <2>1, Removed
  <2>3. DOMAIN data' = 1..Len(data) - 1 /\ DOMAIN data = 1..Len(data)
    BY <1>2, <2>1, <2>2
  <2> QED
    BY <1>2, <2>1, <2>2, <2>3
<1>8. DataInv'
  <2>1. \A i \in DOMAIN data', v \in Nat : v >= data'[i].sdu + Window => ~Received(v)'
    BY <1>1, <1>6, <1>7 DEF DataInv, Young
  <2> QED
    BY <1>1, <1>3, <1>7, <2>1, DataLeft
<1>9. \A n \in Nat : Waiting(n) => Waiting(n)'
  BY <1>3 DEF Waiting, txCore
<1>10. TxInv(a)'
  BY <1>1, <1>3, <1>4, <1>5, <1>6, TxSame
<1>11. StatusInv(g)'
  BY <1>3, <1>4, <1>5, <1>6, <1>9, StatusSame
<1>12. StackInv(a, g)'
  BY <1>1, <1>3, <1>4, <1>5, <1>6, <1>9, StackSame
<1> QED
  BY <1>3, <1>6, <1>8, <1>10, <1>11, <1>12 DEF Sides

LEMMA ReceiveDataSafe ==
    ASSUME IInv, ReceiveData, Reach < Window
    PROVE  /\ RxInv' /\ DataInv' /\ \E a, g \in 0..taken' : Sides(a, g)'
           /\ Done' \in Nat /\ Done <= Done'
<1>1. TypeOK /\ RxInv /\ DataInv
  BY DEF IInv
<1>2. PICK k \in 1..2 : /\ Arrives(data, k) /\ HandleDataPdu(data[k])
                        /\ data' = Without(data, k) /\ UNCHANGED statuses
  BY DEF ReceiveData
<1>3. PICK p : p = data[k]
  OBVIOUS
<1>4. HandleDataPdu(p)
  BY <1>2, <1>3
<1>5. UNCHANGED <<txCore, statuses, stackVars>> /\ taken' = taken
  BY <1>2, <1>4 DEF HandleDataPdu, txVars, txCore
<1>6. Done \in Nat /\ taken \in Nat /\ Window \in Nat /\ Reach \in Nat
  BY <1>1, TypeFacts, Sizes, RlcAssumption
<1>7. PICK a, g \in 0..taken : TxInv(a) /\ StatusInv(g) /\ StackInv(a, g)
  BY DEF IInv
<1>8. k \in DOMAIN data /\ data \in Seq(DataPdu) /\ p \in DataPdu /\ p.sdu \in 1..taken
      /\ p.sn = At(p.sdu - 1) /\ Young(p)
  BY <1>1, <1>2, <1>3 DEF Arrives, DataInv
<1>9. taken <= Done + Window
  BY <1>6, <1>7 DEF TxInv
<1>10. /\ RxInv' /\ Done' \in Nat /\ Grew
       /\ \A v \in Nat : Received(v)' => Received(v) \/ v = p.sdu
  <2>1. CASE Inside(p.sn) /\ rxWin[p.sn] = 0 /\ Accept(p)
    BY <1>1, <1>5, <1>8, <1>9, <2>1, AcceptSafe
  <2>2. CASE UNCHANGED rxCore
    BY <1>1, <1>5, <1>6, <2>2, RxSame
  <2> QED
    BY <1>4, <2>1, <2>2 DEF HandleDataPdu, rxCore
<1>11. /\ data' \in Seq(DataPdu) /\ k \in Nat
       /\ \A i \in DOMAIN data' : /\ i \in Nat /\ i >= 1
                                  /\ Old(i, k) \in DOMAIN data
                                  /\ data'[i].sdu = data[Old(i, k)].sdu
                                  /\ data'[i].sn = data[Old(i, k)].sn
  <2>1. \A q \in DataPdu : Overtaken(q) \in DataPdu
    BY DEF DataPdu, Overtaken
  <2>2. \A q \in DataPdu : Overtaken(q).sdu = q.sdu /\ Overtaken(q).sn = q.sn
    BY DEF DataPdu, Overtaken
  <2>3. /\ data' \in Seq(DataPdu) /\ Len(data') = Len(data) - 1
        /\ \A i \in 1..Len(data) - 1 :
              /\ Old(i, k) \in 1..Len(data)
              /\ data'[i] = IF k = 2 /\ i = 1 THEN Overtaken(data[1]) ELSE data[Old(i, k)]
    <3>1. data' \in Seq(DataPdu) /\ Left(data, data', k)
      BY <1>2, <1>8, <2>1, Remaining
    <3> QED
      BY <3>1 DEF Left
  <2>4. ASSUME NEW i \in DOMAIN data'
        PROVE  /\ i \in Nat /\ i >= 1
               /\ Old(i, k) \in DOMAIN data
               /\ data'[i].sdu = data[Old(i, k)].sdu
               /\ data'[i].sn = data[Old(i, k)].sn
    <3>1. i \in 1..Len(data) - 1 /\ i \in Nat /\ i >= 1 /\ Old(i, k) \in DOMAIN data
      BY <1>8, <2>3
    <3>2. data[Old(i, k)] \in DataPdu
      BY <1>8, <3>1
    <3>3. k = 2 /\ i = 1 => Old(i, k) = 1
      BY DEF Old
    <3>4. CASE k = 2 /\ i = 1
      BY <2>2, <2>3, <3>1, <3>2, <3>3, <3>4
    <3>5. CASE ~(k = 2 /\ i = 1)
      BY <2>3, <3>1, <3>5
    <3> QED
      BY <3>1, <3>4, <3>5
  <2> QED
    BY <2>3, <2>4
<1>12. \A i \in DOMAIN data' : p.sdu < data'[i].sdu + Window
  <2> SUFFICES ASSUME NEW i \in DOMAIN data' PROVE p.sdu < data[Old(i, k)].sdu + Window
    BY <1>11
  <2>1. i \in Nat /\ i >= 1 /\ Old(i, k) \in DOMAIN data /\ data[Old(i, k)].sdu \in Nat
    BY <1>1, <1>6, <1>11 DEF DataInv
  <2>2. CASE k < Old(i, k)
    BY <1>1, <1>2, <1>3, <1>8, <2>1, <2>2 DEF DataInv
  <2>3. CASE ~(k < Old(i, k))
    <3>1. k = 2 /\ i = 1 /\ Old(i, k) = 1
      BY <2>1, <2>3 DEF Old
    <3>2. data[2].sdu - data[1].sdu <= Reach
      BY <1>2, <3>1 DEF Arrives
    <3> QED
      BY <1>3, <1>6, <1>8, <2>1, <3>1, <3>2
  <2> QED
    BY <2>2, <2>3
<1>13. DataInv'
  <2>1. ASSUME NEW i \in DOMAIN data', NEW v \in Nat, v >= data'[i].sdu + Window, Received(v)'
        PROVE  FALSE
    <3>1. data[Old(i, k)].sdu \in Nat /\ Young(data[Old(i, k)]) /\ data'[i].sdu = data[Old(i, k)].sdu
      BY <1>1, <1>6, <1>11 DEF DataInv
    <3>2. ~Received(v)
      BY <2>1, <3>1 DEF Young
    <3> QED
      BY <1>6, <1>8, <1>10, <1>12, <2>1, <3>1, <3>2
  <2> QED
    BY <1>1, <1>5, <1>11, <2>1, DataLeft
<1>14. \A n \in Nat : Waiting(n) => Waiting(n)'
  BY <1>5 DEF Waiting, txCore
<1>15. TxInv(a)'
  BY <1>1, <1>5, <1>7, <1>10, TxSame
<1>16. StatusInv(g)'
  BY <1>5, <1>6, <1>7, <1>10, <1>14, StatusSame
<1>17. StackInv(a, g)'
  BY <1>1, <1>5, <1>6, <1>7, <1>10, <1>14, StackSame
<1> QED
  BY <1>5, <1>10, <1>13, <1>15, <1>16, <1>17 DEF Sides, Grew

-----------------------------------------------------------------------------
(* get_status_pdu: all that is missing before the ACK is in the NACKs. *)
StatusAt(o, ns) ==
    [ack |-> (vrR + o) % Mod, nacks |-> {(vrR + i) % Mod : i \in ns},
     sdu |-> Len(delivered), late |-> FALSE]

LEMMA StatusPduForm ==
    ASSUME NEW b \in Nat, b = RxBase(vrMs), NEW k \in Nat
    PROVE  \E o \in 0..b, ns \in SUBSET Missing :
              /\ StatusPdu(k) = StatusAt(o, ns)
              /\ ns \subseteq 0..o - 1
              /\ \A i \in 0..o - 1 : i \in Missing => i \in ns
<1> DEFINE rank(o) == Cardinality({i \in Missing : i < o})
           kept    == {o \in Missing : rank(o) < k}
           got     == {o \in 0..b - 1 : o \notin Missing /\ rank(o) <= k}
           last    == IF got = {} THEN 0 ELSE CHOOSE o \in got : \A i \in got : i <= o
<1>1. Missing \subseteq 0..b - 1
  BY DEF Missing
<1>2. StatusPdu(k) = IF Cardinality(Missing) <= k  THEN StatusAt(b, Missing)
                     ELSE IF \A o \in kept : o < last THEN StatusAt(last, kept)
                     ELSE StatusAt(0, {})
  BY DEF StatusPdu, StatusAt
<1>3. IsFiniteSet(Missing)
  <2>1. 0 \in Int /\ b - 1 \in Int
    OBVIOUS
  <2>2. IsFiniteSet(0..b - 1)
    BY ONLY <2>1, FS_Interval
  <2>3. Missing \in SUBSET (0..b - 1)
    BY <1>1
  <2> QED
    BY ONLY <2>2, <2>3, FS_Subset
<1>4. \A o \in 0..b : rank(o) \in Nat
  BY <1>3, FS_Subset, FS_CardinalityType
<1>5. ASSUME NEW o \in Missing, NEW l \in 0..b, o < l PROVE rank(o) < rank(l)
  <2> DEFINE A == {i \in Missing : i < o}
             B == {i \in Missing : i < l}
  <2>1. IsFiniteSet(B) /\ A \subseteq B /\ o \in B /\ o \notin A
    <3>1. \A i \in Missing : i \in Int
      BY <1>1
    <3>2. IsFiniteSet(B)
      BY <1>3, FS_Subset
    <3> QED
      BY <1>5, <3>1, <3>2
  <2>2. Cardinality(A) <= Cardinality(B) /\ (Cardinality(A) = Cardinality(B) => A = B)
        /\ Cardinality(A) \in Nat /\ Cardinality(B) \in Nat
    <3> HIDE DEF A, B
    <3> QED
      BY <2>1, FS_Subset, FS_CardinalityType
  <2> HIDE DEF A, B
  <2>3. Cardinality(A) < Cardinality(B)
    BY <2>1, <2>2
  <2> QED
    BY <2>3 DEF A, B
<1>6. last \in 0..b /\ (got # {} => last \in got)
  <2>1. CASE got = {}
    <3> HIDE DEF got
    <3>1. last = 0
      BY <2>1
    <3> HIDE DEF last
    <3> QED
      BY <2>1, <3>1
  <2>2. CASE got # {}
    <3>1. got \in SUBSET Nat /\ \A y \in got : y <= b
      OBVIOUS
    <3>2. \E o \in got : \A i \in got : i <= o
      <4> HIDE DEF got
      <4> QED
        BY <2>2, <3>1, Greatest
    <3>3. last \in got
      BY <2>2, <3>2
    <3> HIDE DEF last
    <3> QED
      BY <3>3
  <2> QED
    BY <2>1, <2>2
<1>7. \A i \in 0..last - 1 : i \in Missing => i \in kept
  <2> SUFFICES ASSUME NEW i \in 0..last - 1, i \in Missing PROVE rank(i) < k
    BY DEF kept
  <2> HIDE DEF last
  <2>1. got # {}
    BY DEF last
  <2>2. last \in got /\ i < last
    BY <1>6, <2>1
  <2>3. rank(last) <= k
    BY <2>2
  <2>4. rank(i) < rank(last) /\ rank(i) \in Nat /\ rank(last) \in Nat
    BY <1>1, <1>4, <1>5, <1>6, <2>2
  <2> HIDE DEF rank
  <2> QED
    BY <2>3, <2>4
<1>8. kept \in SUBSET Missing
  OBVIOUS
<1>9. CASE Cardinality(Missing) <= k
  <2>1. StatusPdu(k) = StatusAt(b, Missing)
    <3> HIDE DEF kept, last
    <3> QED
      BY <1>2, <1>9
  <2>2. b \in 0..b /\ Missing \in SUBSET Missing
    OBVIOUS
  <2> QED
    BY <1>1, <2>1, <2>2
<1>10. CASE ~(Cardinality(Missing) <= k) /\ \A o \in kept : o < last
  <2>1. StatusPdu(k) = StatusAt(last, kept)
    BY <1>2, <1>10
  <2>2. \A o \in kept : o \in 0..last - 1
    <3> HIDE DEF last
    <3>1. \A o \in kept : o \in 0..b - 1
      BY <1>1
    <3> HIDE DEF kept
    <3> QED
      BY <1>6, <1>10, <3>1
  <2> HIDE DEF kept, last
  <2> QED
    BY <1>6, <1>7, <1>8, <2>1, <2>2
<1>11. CASE ~(Cardinality(Missing) <= k) /\ ~(\A o \in kept : o < last)
  <2>1. StatusPdu(k) = StatusAt(0, {})
    BY <1>2, <1>11
  <2>2. {} \in SUBSET Missing /\ 0 \in 0..b /\ 0..0 - 1 = {}
    OBVIOUS
  <2> QED
    BY <2>1, <2>2
<1> QED
  BY <1>9, <1>10, <1>11

(* What a status says when it is sent. *)
LEMMA SentTrue ==
    ASSUME TypeOK, RxInv, NEW k \in Nat, NEW s, s = StatusPdu(k)
    PROVE  s \in StatusMsg /\ s.sdu = Done /\ ~s.late /\ True(s)
<1>1. PICK h, m, x \in 0..taken : RxAt(h, m, x)
  BY DEF RxInv
<1>2. /\ Done \in Nat /\ taken \in Nat /\ h \in Nat /\ m \in Nat
      /\ Window \in Nat /\ Mod = Window + Window /\ Window > 0
  BY TypeFacts, Sizes
<1>3. /\ Done <= m /\ m <= h /\ h <= taken /\ h <= Done + Window
      /\ vrR = At(Done) /\ vrMs = At(m) /\ rxWin[At(Done)] = 0
  BY <1>1 DEF RxAt
<1>4. PICK b \in Nat : b = m - Done
  BY <1>2, <1>3
<1>5. b = RxBase(vrMs)
  <2>1. (At(m) - At(Done)) % Mod = m - Done
    BY <1>2, <1>3, Ahead
  <2> QED
    BY <1>3, <1>4, <2>1 DEF RxBase
<1>6. PICK o \in 0..b, ns \in SUBSET Missing :
              /\ StatusPdu(k) = StatusAt(o, ns)
              /\ ns \subseteq 0..o - 1
              /\ \A i \in 0..o - 1 : i \in Missing => i \in ns
  BY <1>5, StatusPduForm
<1>7. \A i \in Int : (vrR + i) % Mod = At(Done + i)
  BY <1>2, <1>3, OnFrom
<1>8. o \in Nat /\ o <= b /\ Done + o <= m /\ o < Mod
  BY <1>2, <1>3, <1>4
<1>9. /\ s.ack = At(Done + o) /\ s.sdu = Done /\ s.late = FALSE
      /\ s.nacks = {At(Done + i) : i \in ns}
  <2>1. s = StatusAt(o, ns)
    BY <1>6
  <2>2. \A i \in ns : (vrR + i) % Mod = At(Done + i)
    BY <1>6, <1>7
  <2>3. s.ack = (vrR + o) % Mod /\ s.nacks = {(vrR + i) % Mod : i \in ns}
        /\ s.sdu = Done /\ s.late = FALSE
    BY <2>1 DEF StatusAt, Done
  <2> QED
    BY <1>7, <1>8, <2>2, <2>3
<1>10. s \in StatusMsg
  <2>1. /\ At(Done + o) \in Sns /\ \A i \in ns : At(Done + i) \in Sns
    <3>1. \A i \in ns : Done + i \in Int
      BY <1>2, <1>6
    <3> QED
      BY <1>2, <1>8, <3>1, AtForm
  <2>2. {At(Done + i) : i \in ns} \in SUBSET Sns
    BY <2>1
  <2>3. s = [ack |-> At(Done + o), nacks |-> {At(Done + i) : i \in ns}, sdu |-> Done, late |-> FALSE]
    <3>1. s = [ack |-> (vrR + o) % Mod, nacks |-> {(vrR + i) % Mod : i \in ns},
               sdu |-> Done, late |-> FALSE]
      BY <1>6 DEF StatusAt, Done
    <3>2. \A i \in ns : (vrR + i) % Mod = At(Done + i)
      BY <1>6, <1>7
    <3>3. {(vrR + i) % Mod : i \in ns} = {At(Done + i) : i \in ns}
      BY <3>2
    <3>4. (vrR + o) % Mod = At(Done + o)
      BY <1>7, <1>8
    <3> QED
      BY <3>1, <3>3, <3>4
  <2> QED
    BY <1>2, <2>1, <2>2, <2>3 DEF StatusMsg
<1>11. Upto(s) = Done + o
  <2>1. (At(Done + o) - At(Done)) % Mod = o
    BY <1>2, <1>8, Ahead
  <2> QED
    BY <1>9, <2>1 DEF Upto
<1>12. \A sn \in s.nacks : \E n \in s.sdu + 1..Upto(s) : sn = At(n - 1)
  <2> SUFFICES ASSUME NEW i \in ns PROVE \E n \in Done + 1..Done + o : At(Done + i) = At(n - 1)
    BY <1>9, <1>11
  <2>1. i \in 0..o - 1
    BY <1>6
  <2>2. Done + i + 1 \in Done + 1..Done + o /\ (Done + i + 1) - 1 = Done + i
    BY <1>2, <1>8, <2>1
  <2> QED
    BY <2>2
<1>13. ASSUME NEW n \in Done + 1..Done + o, At(n - 1) \notin s.nacks PROVE Received(n)
  <2>1. /\ (n - 1) - Done \in 0..o - 1 /\ Done + ((n - 1) - Done) = n - 1
        /\ (n - 1) - Done \in Int /\ (n - 1) - Done \in 0..b - 1 /\ n - 1 \in Done..h /\ (n - 1) + 1 = n
    BY <1>2, <1>3, <1>4, <1>8
  <2>2. (n - 1) - Done \notin ns
    BY <1>9, <1>13, <2>1
  <2>3. (n - 1) - Done \notin Missing
    BY <1>6, <2>1, <2>2
  <2>4. rxWin[At(n - 1)] # 0
    BY <1>5, <1>7, <2>1, <2>3 DEF Missing
  <2>5. Filled(rxWin, Done, h)
    BY <1>1, RxFilled
  <2>6. rxWin[At(n - 1)] \in {0, (n - 1) + 1}
    BY <2>1, <2>5, FilledForm
  <2> QED
    BY <2>1, <2>4, <2>6 DEF Received
<1>14. ~Acks(s, Done + 1)
  <2> SUFFICES ASSUME Acks(s, Done + 1) PROVE FALSE
    OBVIOUS
  <2>1. Done + 1 \in Done + 1..Done + o /\ At((Done + 1) - 1) \notin s.nacks
    BY <1>2, <1>8, <1>11 DEF Acks
  <2>2. Received(Done + 1)
    BY <1>13, <2>1
  <2> QED
    BY <2>2, RxFacts
<1>15. True(s)
  <2>1. s.sdu <= Done /\ Upto(s) <= taken /\ Upto(s) <= s.sdu + Window /\ s.ack = At(Upto(s))
    BY <1>2, <1>3, <1>8, <1>9, <1>11
  <2>2. \A n \in s.sdu + 1..Upto(s) : Acks(s, n) => Received(n)
    BY <1>9, <1>11, <1>13 DEF Acks
  <2> QED
    BY <1>9, <1>12, <1>14, <2>1, <2>2 DEF True
<1> QED
  BY <1>9, <1>10, <1>15

LEMMA SendStatusSafe ==
    ASSUME IInv, SendStatus
    PROVE  RxInv' /\ DataInv' /\ \E a, g \in 0..taken' : Sides(a, g)'
<1>1. TypeOK /\ RxInv /\ DataInv
  BY DEF IInv
<1>2. UNCHANGED <<rxCore, txCore, data, stackVars>> /\ taken' = taken
  BY DEF SendStatus, rxCore, txVars, txCore
<1>3. PICK k \in Nat : statuses' = Append(statuses, StatusPdu(k))
  BY Sizes DEF SendStatus
<1>4. PICK s : s = StatusPdu(k)
  OBVIOUS
<1>5. s \in StatusMsg /\ s.sdu = Done /\ ~s.late /\ True(s)
  BY <1>1, <1>4, SentTrue
<1>6. Done \in Nat /\ taken \in Nat /\ Done <= taken /\ ~Received(Done + 1)
  BY <1>1, TypeFacts, RxFacts
<1>7. PICK a, g \in 0..taken : TxInv(a) /\ StatusInv(g) /\ StackInv(a, g)
  BY DEF IInv
<1>8. RxInv' /\ Done' = Done /\ Grew /\ \A n \in Nat : Received(n)' <=> Received(n)
  BY <1>1, <1>2, <1>6, RxSame
<1>9. DataInv'
  BY <1>1, <1>2, <1>6, <1>8, DataSame
<1>10. \A n \in Nat : Waiting(n) => Waiting(n)'
  BY <1>2 DEF Waiting, txCore
<1>11. TxInv(a)'
  BY <1>1, <1>2, <1>6, <1>7, <1>8, TxSame
<1>12. /\ statuses' \in Seq(StatusMsg) /\ Len(statuses') = Len(statuses) + 1 /\ Len(statuses) \in Nat
       /\ \A i \in 1..Len(statuses) : statuses'[i] = statuses[i]
       /\ statuses'[Len(statuses) + 1] = s
       /\ statuses \in Seq(StatusMsg)
  BY <1>3, <1>4, <1>5, <1>7, Appended DEF StatusInv
<1>13. Waiting(Done + 1)
  <2> SUFFICES ASSUME Done + 1 <= taken PROVE txWin[At((Done + 1) - 1)] = Done + 1
    BY DEF Waiting
  <2>1. Done + 1 \in a + 1..taken
    BY <1>6, <1>7 DEF TxInv
  <2>2. txWin[At((Done + 1) - 1)] # 0
    BY <1>6, <1>7, <2>1 DEF TxInv
  <2>3. txWin[At((Done + 1) - 1)] \in {0, Done + 1}
    BY <1>1, <1>7, <2>1, TxFacts
  <2> QED
    BY <2>2, <2>3
<1>14. g <= Done
  BY <1>7 DEF StackInv
<1>15. ASSUME NEW i \in DOMAIN statuses', NEW t, t = statuses'[i]
       PROVE  /\ True(t)'
              /\ t.late => i = 1 /\ t.sdu <= g /\ g < t.sdu + Window /\ ~Acks(t, g + 1)
              /\ ~t.late => g <= t.sdu
              /\ \A n \in Nat : ~t.late /\ n = t.sdu + 1 => Waiting(n)'
  <2>1. CASE i \in 1..Len(statuses)
    <3>1. t = statuses[i] /\ i \in DOMAIN statuses /\ t \in StatusMsg
      BY <1>12, <1>15, <2>1
    <3>2. /\ True(t)
          /\ t.late => i = 1 /\ t.sdu <= g /\ g < t.sdu + Window /\ ~Acks(t, g + 1)
          /\ ~t.late => g <= t.sdu /\ Waiting(t.sdu + 1)
      BY <1>7, <3>1 DEF StatusInv
    <3>3. True(t)'
      BY <1>2, <1>6, <1>8, <3>1, <3>2, TrueStill
    <3> QED
      BY <1>10, <3>2, <3>3
  <2>2. CASE i = Len(statuses) + 1
    <3>1. t = s
      BY <1>12, <1>15, <2>2
    <3>2. True(t)'
      BY <1>2, <1>5, <1>6, <1>8, <3>1, TrueStill
    <3> QED
      BY <1>5, <1>6, <1>10, <1>13, <1>14, <3>1, <3>2
  <2> QED
    BY <1>12, <2>1, <2>2
<1>16. ASSUME NEW i \in DOMAIN statuses', NEW j \in DOMAIN statuses', i < j
       PROVE  statuses'[i].sdu <= statuses'[j].sdu /\ ~Acks(statuses'[i], statuses'[j].sdu + 1)
  <2>1. i \in 1..Len(statuses) /\ i \in DOMAIN statuses /\ statuses'[i] = statuses[i]
    BY <1>12, <1>16
  <2>2. CASE j \in 1..Len(statuses)
    BY <1>7, <1>12, <1>16, <2>1, <2>2 DEF StatusInv
  <2>3. CASE j = Len(statuses) + 1
    <3>1. statuses'[j] = s
      BY <1>12, <2>3
    <3>2. statuses[i] \in StatusMsg /\ True(statuses[i])
      BY <1>7, <2>1 DEF StatusInv
    <3>3. statuses[i].sdu <= Done /\ statuses[i].sdu \in Nat /\ Upto(statuses[i]) \in Nat
      BY <3>2, UptoForm DEF True
    <3>4. ASSUME Acks(statuses[i], Done + 1) PROVE FALSE
      <4>1. Done + 1 \in statuses[i].sdu + 1..Upto(statuses[i])
        BY <1>6, <3>3, <3>4 DEF Acks
      <4>2. Received(Done + 1)
        BY <3>2, <3>4, <4>1 DEF True
      <4> QED
        BY <1>6, <4>2
    <3> QED
      BY <1>5, <2>1, <3>1, <3>3, <3>4
  <2> QED
    BY <1>12, <2>2, <2>3
<1>17. StatusInv(g)'
  <2>1. ASSUME NEW i \in DOMAIN statuses', ~statuses'[i].late, NEW n, n = statuses'[i].sdu + 1
        PROVE  Waiting(n)'
    <3>1. n \in Nat
      BY <1>12, <2>1, UptoForm
    <3> QED
      BY <1>15, <2>1, <3>1
  <2> QED
    BY <1>12, <1>15, <1>16, <2>1 DEF StatusInv
<1>18. StackInv(a, g)'
  <2>1. \A i \in DOMAIN statuses' :
              \/ statuses'[i].late \/ statuses'[i].sdu = Done
              \/ \E o \in DOMAIN statuses : statuses'[i] = statuses[o]
    BY <1>5, <1>12
  <2> QED
    BY <1>1, <1>2, <1>6, <1>7, <1>8, <1>10, <2>1, StackSame
<1> QED
  BY <1>2, <1>8, <1>9, <1>11, <1>17, <1>18 DEF Sides

-----------------------------------------------------------------------------
(* Types. *)
TxTypes ==
    /\ written \in 0..MaxSdus /\ taken \in 0..written
    /\ vtA \in Sns /\ vtS \in Sns /\ pollSn \in Sns /\ noPoll \in 0..PollPdu
    /\ pollTimer \in {"stopped", "running", "expired"}
    /\ txWin \in [Sns -> 0..MaxSdus] /\ retxQ \in Seq(Sns)

StackTypes ==
    /\ stackPc \in {"idle", "callback", "status"}
    /\ handling \in [ack : Sns, nacks : SUBSET Sns, i : Sns, end : Sns, move : BOOLEAN]

RxTypes ==
    /\ vrR \in Sns /\ vrMs \in Sns /\ vrX \in Sns /\ vrH \in Sns
    /\ rxWin \in [Sns -> 0..MaxSdus] /\ delivered \in Seq(1..MaxSdus)
    /\ doStatus \in BOOLEAN /\ pollReceived \in BOOLEAN /\ reordering \in BOOLEAN

AirTypes == lost \in 0..MaxLost /\ silent \in BOOLEAN /\ cleared \in BOOLEAN

LEMMA TypeParts == TypeOK <=> TxTypes /\ StackTypes /\ RxTypes /\ AirTypes
  BY DEF TypeOK, TxTypes, StackTypes, RxTypes, AirTypes

LEMMA TypePartsNext == TypeOK' <=> TxTypes' /\ StackTypes' /\ RxTypes' /\ AirTypes'
  BY DEF TypeOK, TxTypes, StackTypes, RxTypes, AirTypes

LEMMA Unmoved ==
    /\ TxTypes /\ UNCHANGED <<written, txVars>> => TxTypes'
    /\ StackTypes /\ UNCHANGED stackVars => StackTypes'
    /\ RxTypes /\ UNCHANGED rxVars => RxTypes'
    /\ AirTypes /\ UNCHANGED <<lost, silent, cleared>> => AirTypes'
  BY DEF TxTypes, txVars, StackTypes, stackVars, RxTypes, rxVars, AirTypes

LEMMA NextSnForm == ASSUME NEW sn \in Sns PROVE Next1(sn) \in Sns
<1>1. sn + 1 \in Int /\ Mod \in Nat \ {0} /\ Sns = 0..Mod - 1
  BY Sizes
<1> QED
  BY ONLY <1>1, ModForm DEF Next1

LEMMA PushedForm == ASSUME NEW q \in Seq(Sns), NEW sn \in Sns PROVE Pushed(q, sn) \in Seq(Sns)
  BY DEF Pushed

LEMMA WriteSduTypes == IInv /\ WriteSdu => TypeOK'
<1> SUFFICES ASSUME TypeOK, WriteSdu PROVE TypeOK'
  BY DEF IInv
<1>1. UNCHANGED <<txVars, stackVars, rxVars, lost, silent, cleared>>
  BY DEF WriteSdu, airVars
<1>2. TxTypes'
  <2>1. written' = written + 1 /\ written < MaxSdus
    BY DEF WriteSdu
  <2> QED
    BY <1>1, <2>1, TypeParts, RlcAssumption DEF TxTypes, txVars
<1> QED
  BY <1>1, <1>2, TypeParts, TypePartsNext, Unmoved

LEMMA ReadPduTypes == IInv /\ ReadPdu => TypeOK'
<1> SUFFICES ASSUME TypeOK, ReadPdu PROVE TypeOK'
  BY DEF IInv
<1>1. written' = written /\ UNCHANGED <<stackVars, rxVars>> /\ lost' = lost /\ cleared' = cleared
  BY DEF ReadPdu
<1>2. TxTypes
  BY TypeParts
<1>3. ToRetransmit \in Seq(Sns)
  BY ToRetransmitForm
<1>4. ASSUME ToRetransmit # <<>>, BuildRetxPdu(ToRetransmit) PROVE TxTypes'
  <2> DEFINE q == ToRetransmit
  <2>1. /\ retxQ' = Tail(q) /\ vtA' = vtA /\ vtS' = vtS /\ txWin' = txWin /\ taken' = taken
        /\ \/ noPoll' = 0 /\ pollTimer' = "running" /\ pollSn' = pollSn
           \/ ~PollDue /\ noPoll' = noPoll + 1 /\ pollTimer' = pollTimer /\ pollSn' = pollSn
    BY <1>4 DEF BuildRetxPdu, Polling
  <2>2. Tail(q) \in Seq(Sns)
    <3> HIDE DEF q
    <3> QED
      BY <1>3, <1>4 DEF q
  <2>3. noPoll' \in 0..PollPdu
    BY <1>2, <2>1, RlcAssumption DEF TxTypes, PollDue
  <2>4. pollSn' \in Sns /\ pollTimer' \in {"stopped", "running", "expired"}
    BY <1>2, <2>1 DEF TxTypes
  <2>5. retxQ' \in Seq(Sns)
    BY <2>1, <2>2
  <2> QED
    BY <1>1, <1>2, <2>1, <2>3, <2>4, <2>5 DEF TxTypes
<1>5. ASSUME BuildDataPdu PROVE TxTypes'
  <2>1. /\ retxQ' = <<>> /\ UNCHANGED vtA /\ taken < written /\ taken' = taken + 1
        /\ vtS' = Next1(vtS) /\ txWin' = [txWin EXCEPT ![vtS] = taken + 1]
        /\ \/ noPoll' = 0 /\ pollTimer' = "running" /\ pollSn' = vtS
           \/ ~PollDue /\ noPoll' = noPoll + 1 /\ pollTimer' = pollTimer /\ pollSn' = pollSn
    BY <1>5 DEF BuildDataPdu, Polling
  <2>2. noPoll' \in 0..PollPdu
    BY <1>2, <2>1, RlcAssumption DEF TxTypes, PollDue
  <2>3. taken + 1 \in 0..MaxSdus /\ taken' \in 0..written
    BY <1>2, <2>1, RlcAssumption DEF TxTypes
  <2>4. vtS' \in Sns /\ txWin' \in [Sns -> 0..MaxSdus] /\ <<>> \in Seq(Sns)
    BY <1>2, <2>1, <2>3, NextSnForm DEF TxTypes
  <2>5. pollSn' \in Sns /\ pollTimer' \in {"stopped", "running", "expired"}
    BY <1>2, <2>1 DEF TxTypes
  <2> QED
    BY <1>1, <1>2, <2>1, <2>2, <2>3, <2>4, <2>5 DEF TxTypes
<1>6. ASSUME UNCHANGED <<vtA, vtS, pollSn, noPoll, pollTimer, txWin, taken, data>>, retxQ' = <<>>
      PROVE  TxTypes'
  <2>1. /\ vtA' = vtA /\ vtS' = vtS /\ pollSn' = pollSn /\ noPoll' = noPoll /\ pollTimer' = pollTimer
        /\ txWin' = txWin /\ taken' = taken
    BY <1>6
  <2>2. <<>> \in Seq(Sns)
    OBVIOUS
  <2> QED
    BY <1>1, <1>2, <1>6, <2>1, <2>2 DEF TxTypes
<1>7. TxTypes'
  BY <1>4, <1>5, <1>6 DEF ReadPdu
<1>8. AirTypes'
  <2>1. silent' \in BOOLEAN
    BY TypeParts DEF ReadPdu, AirTypes, GivesUp
  <2> QED
    BY <1>1, <2>1, TypeParts DEF AirTypes
<1> QED
  BY <1>1, <1>7, <1>8, TypeParts, TypePartsNext, Unmoved

LEMMA PollTimerTypes == IInv /\ (PollTimerExpires \/ PollTimerExpired) => TypeOK'
<1> SUFFICES ASSUME TypeOK, PollTimerExpires \/ PollTimerExpired PROVE TypeOK'
  BY DEF IInv
<1>1. UNCHANGED <<written, vtA, vtS, pollSn, noPoll, txWin, taken, handling, rxVars, lost, silent, cleared>>
  BY DEF PollTimerExpires, PollTimerExpired, airVars
<1>2. /\ stackPc' \in {"idle", "callback"} /\ pollTimer' \in {pollTimer, "expired"}
      /\ retxQ' \in {retxQ, Retransmit(retxQ)}
  BY DEF PollTimerExpires, PollTimerExpired
<1>3. TxTypes /\ StackTypes /\ Retransmit(retxQ) \in Seq(Sns)
  BY TypeParts, RetransmitForm DEF TxTypes
<1>4. TxTypes' /\ StackTypes'
  BY <1>1, <1>2, <1>3 DEF TxTypes, StackTypes
<1> QED
  BY <1>1, <1>4, TypeParts, TypePartsNext, Unmoved

LEMMA StatusStepTypes == IInv /\ (Nacked \/ Acked \/ StatusHandled) => TypeOK'
<1> SUFFICES ASSUME TypeOK, Nacked \/ Acked \/ StatusHandled PROVE TypeOK'
  BY DEF IInv
<1>1. UNCHANGED <<written, vtS, pollSn, noPoll, pollTimer, taken, rxVars, lost, silent, cleared>>
  BY DEF Nacked, Acked, StatusHandled, txVars, airVars
<1>2. TxTypes /\ StackTypes
  BY TypeParts
<1>3. handling.i \in Sns /\ Next1(handling.i) \in Sns /\ Next1(vtA) \in Sns
  BY <1>2, NextSnForm DEF StackTypes, TxTypes
<1>4. /\ vtA' \in {vtA, Next1(vtA)} /\ txWin' \in {txWin, [txWin EXCEPT ![handling.i] = 0]}
      /\ retxQ' \in {retxQ, Pushed(retxQ, handling.i)} /\ stackPc' \in {stackPc, "idle"}
      /\ handling' \in {[handling EXCEPT !.i = Next1(handling.i), !.move = FALSE],
                        [handling EXCEPT !.i = Next1(handling.i)], NoStatus}
  BY DEF Nacked, Acked, StatusHandled, txVars
<1>5. TxTypes'
  <2>1. [txWin EXCEPT ![handling.i] = 0] \in [Sns -> 0..MaxSdus]
    BY <1>2, <1>3, RlcAssumption DEF TxTypes
  <2>2. retxQ' \in Seq(Sns)
    BY <1>2, <1>3, <1>4, PushedForm DEF TxTypes
  <2> QED
    BY <1>1, <1>2, <1>3, <1>4, <2>1, <2>2 DEF TxTypes
<1>6. StackTypes'
  <2>1. NoStatus \in [ack : Sns, nacks : SUBSET Sns, i : Sns, end : Sns, move : BOOLEAN]
    BY Sizes DEF NoStatus
  <2> QED
    BY <1>2, <1>3, <1>4, <2>1 DEF StackTypes
<1> QED
  BY <1>1, <1>5, <1>6, TypeParts, TypePartsNext, Unmoved

LEMMA ReceiveStatusTypes == IInv /\ ReceiveStatus => TypeOK'
<1> SUFFICES ASSUME IInv, ReceiveStatus PROVE TypeOK'
  OBVIOUS
<1>1. TypeOK /\ TxTypes /\ StackTypes /\ RxTypes /\ AirTypes
  BY TypeParts DEF IInv
<1>2. PICK k \in 1..2 : Arrives(statuses, k) /\ HandleStatus(statuses[k])
  BY DEF ReceiveStatus
<1>3. PICK s : s = statuses[k]
  OBVIOUS
<1>4. s \in StatusMsg
  BY <1>2, <1>3 DEF Arrives, IInv, StatusInv
<1>5. UNCHANGED <<lost, silent>> /\ HandleStatus(s)
  BY <1>2, <1>3 DEF ReceiveStatus
<1>6. /\ written' = written /\ vtA' = vtA /\ vtS' = vtS /\ pollSn' = pollSn /\ noPoll' = noPoll
      /\ txWin' = txWin /\ taken' = taken /\ UNCHANGED rxVars
      /\ pollTimer' \in {pollTimer, "stopped"} /\ retxQ' \in {retxQ, <<>>}
      /\ stackPc' \in {stackPc, "status"}
      /\ cleared' = cleared \/ cleared' = (cleared \/ Forgets(s))
      /\ \/ handling' = handling
         \/ handling' = [ack |-> s.ack, nacks |-> s.nacks, i |-> vtA, end |-> vtS, move |-> TRUE]
  BY <1>5 DEF HandleStatus
<1>7. TxTypes'
  <2>1. retxQ' \in Seq(Sns)
    <3>1. <<>> \in Seq(Sns)
      OBVIOUS
    <3> QED
      BY <1>1, <1>6, <3>1 DEF TxTypes
  <2> QED
    BY <1>1, <1>6, <2>1 DEF TxTypes
<1>8. StackTypes'
  <2>1. s.ack \in Sns /\ s.nacks \in SUBSET Sns /\ vtA \in Sns /\ vtS \in Sns
    BY <1>1, <1>4 DEF StatusMsg, TxTypes
  <2>2. [ack |-> s.ack, nacks |-> s.nacks, i |-> vtA, end |-> vtS, move |-> TRUE]
          \in [ack : Sns, nacks : SUBSET Sns, i : Sns, end : Sns, move : BOOLEAN]
    BY <2>1
  <2> QED
    BY <1>1, <1>6, <2>2 DEF StackTypes
<1>9. AirTypes'
  BY <1>1, <1>5, <1>6 DEF AirTypes, Forgets
<1> QED
  BY <1>1, <1>6, <1>7, <1>8, <1>9, TypePartsNext, Unmoved

LEMMA ChannelTypes == IInv /\ (SendStatus \/ LoseData \/ LoseStatus) => TypeOK'
<1> SUFFICES ASSUME TypeOK, SendStatus \/ LoseData \/ LoseStatus PROVE TypeOK'
  BY DEF IInv
<1>1. UNCHANGED <<written, txVars, stackVars, vrR, vrMs, vrX, vrH, rxWin, delivered, reordering, cleared>>
  BY DEF SendStatus, LoseData, LoseStatus, rxVars
<1>2. RxTypes /\ AirTypes
  BY TypeParts
<1>3. /\ doStatus' \in {doStatus, FALSE} /\ pollReceived' \in {pollReceived, FALSE}
      /\ lost' \in {lost, lost + 1} /\ (lost' = lost \/ lost < MaxLost)
  BY DEF SendStatus, LoseData, LoseStatus, rxVars
<1>4. \/ silent' = silent
      \/ \E k \in DOMAIN data : silent' = (silent \/ (data[k].retx /\ ~data[k].poll))
  BY DEF SendStatus, LoseData, LoseStatus
<1>5. RxTypes'
  BY <1>1, <1>2, <1>3 DEF RxTypes
<1>6. AirTypes'
  <2>1. silent' \in BOOLEAN
    BY <1>2, <1>4 DEF AirTypes
  <2>2. lost' \in 0..MaxLost
    BY <1>2, <1>3, RlcAssumption DEF AirTypes
  <2> QED
    BY <1>1, <1>2, <2>1, <2>2 DEF AirTypes
<1> QED
  BY <1>1, <1>5, <1>6, TypeParts, TypePartsNext, Unmoved

(* The receiver's counters are SNs, and its windows hold SDUs, as they     *)
(* stand for what RxInv says.                                              *)
LEMMA RxForm ==
    ASSUME RxInv', taken' \in 0..MaxSdus, Done' \in Nat
    PROVE  /\ vrR' \in Sns /\ vrMs' \in Sns /\ vrH' \in Sns
           /\ \A sn \in Sns : rxWin'[sn] \in 0..MaxSdus
           /\ delivered' \in Seq(1..MaxSdus)
<1>1. PICK h, m, x \in 0..taken' : RxAt(h, m, x)'
  BY DEF RxInv
<1>2. MaxSdus \in Nat /\ taken' \in Nat /\ h \in Nat /\ m \in Nat
  BY RlcAssumption
<1>3. vrR' \in Sns /\ vrMs' \in Sns /\ vrH' \in Sns
  BY <1>1, <1>2, AtForm DEF RxAt
<1>4. ASSUME NEW sn \in Sns PROVE rxWin'[sn] \in 0..MaxSdus
  <2>1. CASE rxWin'[sn] = 0
    BY <1>2, <2>1
  <2>2. CASE rxWin'[sn] # 0
    <3>1. rxWin'[sn] \in Done' + 2..h
      BY <1>1, <2>2 DEF RxAt
    <3> QED
      BY <1>2, <3>1
  <2> QED
    BY <2>1, <2>2
<1>5. delivered' \in Seq(1..MaxSdus)
  <2>1. delivered' = [i \in 1..Done' |-> i]
    BY DEF RxInv
  <2>2. Done' <= MaxSdus
    BY <1>1, <1>2 DEF RxAt
  <2>3. PICK d \in Nat : d = Done'
    OBVIOUS
  <2>4. \A i \in 1..d : i \in 1..MaxSdus
    BY <1>2, <2>2, <2>3
  <2>5. [i \in 1..d |-> i] \in Seq(1..MaxSdus)
    BY <2>4
  <2> QED
    BY <2>1, <2>3, <2>5
<1> QED
  BY <1>3, <1>4, <1>5

LEMMA RxStepTypes ==
    ASSUME IInv, ReorderingExpires \/ ReceiveData, RxInv', Done' \in Nat
    PROVE  TypeOK'
<1>1. TypeOK /\ TxTypes /\ StackTypes /\ RxTypes /\ AirTypes
  BY TypeParts DEF IInv
<1>2. UNCHANGED <<written, txVars, stackVars, lost, silent, cleared>>
  BY DEF ReorderingExpires, ReceiveData, HandleDataPdu, airVars
<1>3. taken' \in 0..MaxSdus
  <2>1. taken' = taken
    BY <1>2 DEF txVars
  <2> QED
    BY <1>1, <2>1, RlcAssumption DEF TxTypes
<1>4. /\ vrR' \in Sns /\ vrMs' \in Sns /\ vrH' \in Sns
      /\ \A sn \in Sns : rxWin'[sn] \in 0..MaxSdus
      /\ delivered' \in Seq(1..MaxSdus)
  BY <1>3, RxForm
<1>5. CASE ReorderingExpires
  <2>1. /\ rxWin' = rxWin /\ vrX' \in {vrX, vrH} /\ doStatus' = (doStatus \/ pollReceived)
        /\ pollReceived' = pollReceived /\ (reordering' = reordering \/ reordering' = FALSE)
    BY <1>5 DEF ReorderingExpires
  <2>2. RxTypes'
    BY <1>1, <1>4, <2>1 DEF RxTypes
  <2> QED
    BY <1>1, <1>2, <2>2, TypePartsNext, Unmoved
<1>6. CASE ReceiveData
  <2>1. PICK p : \E k \in 1..2 : Arrives(data, k) /\ p = data[k] /\ HandleDataPdu(p)
    BY <1>6 DEF ReceiveData
  <2>2. p.poll \in BOOLEAN
    <3>1. p \in DataPdu
      BY <2>1 DEF Arrives, IInv, DataInv
    <3> QED
      BY <3>1 DEF DataPdu
  <2>3. CASE Accept(p)
    <3>1. /\ rxWin' = [sn \in Sns |-> rxWin'[sn]]
          /\ vrX' \in {vrX, vrH'} /\ reordering' \in BOOLEAN
          /\ pollReceived' \in BOOLEAN /\ doStatus' \in BOOLEAN
      BY <1>1, <2>2, <2>3 DEF Accept, RxTypes
    <3>2. rxWin' \in [Sns -> 0..MaxSdus]
      BY <1>4, <3>1
    <3>3. RxTypes'
      BY <1>1, <1>4, <3>1, <3>2 DEF RxTypes
    <3> QED
      BY <1>1, <1>2, <3>3, TypePartsNext, Unmoved
  <2>4. CASE UNCHANGED <<vrR, vrMs, vrX, vrH, rxWin, delivered, pollReceived, reordering>>
             /\ doStatus' = (doStatus \/ p.poll)
    <3>1. RxTypes'
      BY <1>1, <2>2, <2>4 DEF RxTypes
    <3> QED
      BY <1>1, <1>2, <3>1, TypePartsNext, Unmoved
  <2> QED
    BY <2>1, <2>3, <2>4 DEF HandleDataPdu
<1> QED
  BY <1>5, <1>6

-----------------------------------------------------------------------------
LEMMA InitSafe == Init => IInv
<1> SUFFICES ASSUME Init PROVE IInv
  OBVIOUS
<1>1. /\ written = 0 /\ taken = 0 /\ vtA = First /\ vtS = First /\ pollSn = First /\ noPoll = 0
      /\ pollTimer = "stopped" /\ txWin = [sn \in Sns |-> 0] /\ retxQ = <<>>
      /\ stackPc = "idle" /\ handling = NoStatus
      /\ vrR = First /\ vrMs = First /\ vrX = First /\ vrH = First
      /\ rxWin = [sn \in Sns |-> 0] /\ delivered = <<>> /\ reordering = FALSE
      /\ data = <<>> /\ statuses = <<>>
  BY DEF Init
<1>2. First \in Sns /\ 0 \in Sns /\ Window \in Nat /\ MaxSdus \in Nat /\ PollPdu \in Nat /\ At(0) = First
  BY Sizes, FirstSn, RlcAssumption
<1>3. TypeOK
  <2>1. NoStatus \in [ack : Sns, nacks : SUBSET Sns, i : Sns, end : Sns, move : BOOLEAN]
    BY <1>2 DEF NoStatus
  <2>2. /\ <<>> \in Seq(Sns) /\ <<>> \in Seq(1..MaxSdus)
        /\ [sn \in Sns |-> 0] \in [Sns -> 0..MaxSdus]
    BY <1>2
  <2> QED
    BY <1>1, <1>2, <2>1, <2>2, RlcAssumption DEF TypeOK, Init
<1>4. Done = 0 /\ \A sn \in Sns : rxWin[sn] = 0 /\ txWin[sn] = 0
  BY <1>1 DEF Done
<1>5. RxInv
  <2>1. delivered = [i \in 1..Done |-> i]
    BY <1>1, <1>4
  <2>2. RxAt(0, 0, 0)
    BY <1>1, <1>2, <1>4 DEF RxAt
  <2> QED
    BY <1>1, <2>1, <2>2 DEF RxInv
<1>6. DataInv
  <2>1. <<>> \in Seq(DataPdu) /\ DOMAIN <<>> = {}
    OBVIOUS
  <2> QED
    BY <1>1, <2>1 DEF DataInv
<1>7. TxInv(0)
  BY <1>1, <1>2, <1>4 DEF TxInv
<1>8. StatusInv(0)
  <2>1. <<>> \in Seq(StatusMsg) /\ DOMAIN <<>> = {}
    OBVIOUS
  <2> QED
    BY <1>1, <2>1 DEF StatusInv
<1>9. StackInv(0, 0)
  BY <1>1, <1>4 DEF StackInv, Waiting
<1> QED
  BY <1>1, <1>3, <1>5, <1>6, <1>7, <1>8, <1>9 DEF IInv

LEMMA Inductive ==
    ASSUME IInv, [Next]_vars, Reach < Window
    PROVE  IInv'
<1>1. /\ RxInv' /\ DataInv' /\ \E a, g \in 0..taken' : Sides(a, g)'
      /\ ReorderingExpires \/ ReceiveData => Done' \in Nat
  <2>1. ReorderingExpires => Done' \in Nat
    BY TypeFacts DEF ReorderingExpires, IInv, Done
  <2>2. CASE WriteSdu
    BY <2>1, <2>2, WriteSduSafe, ReceiveDataSafe
  <2>3. CASE ReadPdu
    BY <2>1, <2>3, ReadPduSafe, ReceiveDataSafe
  <2>4. CASE PollTimerExpires \/ PollTimerExpired
    BY <2>1, <2>4, PollTimerSafe, ReceiveDataSafe
  <2>5. CASE Nacked
    BY <2>1, <2>5, NackedSafe, ReceiveDataSafe
  <2>6. CASE Acked
    BY <2>1, <2>6, AckedSafe, ReceiveDataSafe
  <2>7. CASE StatusHandled
    BY <2>1, <2>7, StatusHandledSafe, ReceiveDataSafe
  <2>8. CASE ReorderingExpires
    BY <2>1, <2>8, ReorderingExpiresSafe
  <2>9. CASE SendStatus
    BY <2>1, <2>9, SendStatusSafe, ReceiveDataSafe
  <2>10. CASE ReceiveData
    BY <2>10, ReceiveDataSafe
  <2>11. CASE ReceiveStatus
    BY <2>1, <2>11, ReceiveStatusSafe, ReceiveDataSafe
  <2>12. CASE LoseData
    BY <2>1, <2>12, LoseDataSafe, ReceiveDataSafe
  <2>13. CASE LoseStatus
    BY <2>1, <2>13, LoseStatusSafe, ReceiveDataSafe
  <2>14. CASE UNCHANGED vars
    BY <2>1, <2>14, StutterSafe, ReceiveDataSafe
  <2> QED
    BY <2>2, <2>3, <2>4, <2>5, <2>6, <2>7, <2>8, <2>9, <2>10, <2>11, <2>12, <2>13, <2>14
       DEF Next, Stack
<1>2. TypeOK'
  <2>1. CASE UNCHANGED vars
    BY <2>1 DEF IInv, TypeOK, vars, txVars, rxVars, stackVars, airVars
  <2>2. CASE Next
    BY <1>1, <2>2, WriteSduTypes, ReadPduTypes, PollTimerTypes, StatusStepTypes, ReceiveStatusTypes,
       ChannelTypes, RxStepTypes DEF Next, Stack
  <2> QED
    BY <2>1, <2>2
<1> QED
  BY <1>1, <1>2 DEF IInv, Sides

LEMMA IInvAlways == Reach < Window => (Spec => []IInv)
<1> SUFFICES ASSUME Reach < Window PROVE Spec => []IInv
  OBVIOUS
<1>1. IInv /\ [Next]_vars => IInv'
  BY Inductive
<1> QED
  BY <1>1, InitSafe, PTL DEF Spec

(* The counters of both entities stay sequence numbers, and what the       *)
(* receiver has delivered stays a sequence of SDUs that were written.      *)
THEOREM TypeCorrect ==
    ASSUME Reach < Window PROVE Spec => []TypeOK
<1>1. IInv => TypeOK
  BY DEF IInv
<1> QED
  BY <1>1, IInvAlways, PTL

(* The transmitter keeps an SDU until the receiver has it, whatever NACKs, *)
(* timers and late statuses do; and vt_a is the SN of the first that is    *)
(* still in the window whenever no status is being handled, so that there  *)
(* is something to send again (rlc_am_lte.cc:301, :342).                   *)
THEOREM NothingLost ==
    ASSUME Reach < Window PROVE Spec => []NothingForgotten
<1>1. ASSUME IInv PROVE NothingForgotten
  <2>1. TypeOK /\ RxInv /\ Done \in Nat /\ taken \in Nat
    BY <1>1, TypeFacts DEF IInv
  <2>2. PICK a, g \in 0..taken : TxInv(a) /\ StackInv(a, g)
    BY <1>1 DEF IInv
  <2>3. ASSUME NEW n \in 1..taken
        PROVE  (\E sn \in Sns : txWin[sn] = n \/ rxWin[sn] = n) \/ n <= Len(delivered)
    <3>1. At(n - 1) \in Sns
      BY <2>1, AtForm
    <3>2. CASE n <= a
      BY <2>1, <2>2, <3>2 DEF TxInv, Done
    <3>3. CASE n > a
      <4>1. n \in a + 1..taken
        BY <2>1, <3>3
      <4>2. txWin[At(n - 1)] = n \/ Received(n)
        BY <2>1, <2>2, <4>1, TxFacts DEF TxInv
      <4> QED
        BY <3>1, <4>2 DEF Received, Done
    <3> QED
      BY <2>1, <3>2, <3>3
  <2>4. ASSUME stackPc # "status", NEW sn \in Sns, Sent(sn) PROVE Sent(vtA)
    <3>1. g = a /\ vtA = At(a) /\ txWin[sn] \in a + 1..taken
      BY <2>2, <2>4 DEF StackInv, TxInv, Sent
    <3>2. Waiting(a + 1) /\ a + 1 <= taken /\ (a + 1) - 1 = a /\ a + 1 # 0
      BY <2>1, <2>2, <3>1 DEF StackInv
    <3> QED
      BY <3>1, <3>2 DEF Waiting, Sent
  <2> QED
    BY <2>3, <2>4 DEF NothingForgotten
<1> QED
  BY <1>1, IInvAlways, PTL

(* The bearer implements RlcService: what is delivered is what was         *)
(* written, in order, once each, however PDUs and statuses are lost or     *)
(* overtake each other and wherever a status leaves the mutex to a worker. *)
THEOREM ImplementsService ==
    ASSUME Reach < Window PROVE Spec => ServiceSpec
<1>1. Init => Service!Init
  BY DEF Init, Service!Init
<1>2. ASSUME IInv, [Next]_vars PROVE [Service!Write \/ Service!Deliver]_(Service!vars)
  <2>1. CASE WriteSdu
    BY <2>1 DEF WriteSdu, rxVars, Service!Write
  <2>2. CASE ReceiveData
    <3>1. /\ written' = written /\ written \in Nat /\ Done \in Nat /\ taken' = taken /\ taken <= written
          /\ delivered = [i \in 1..Done |-> i]
      <4>1. written' = written /\ taken' = taken
        BY <2>2 DEF ReceiveData, HandleDataPdu, txVars
      <4>2. TypeOK /\ delivered = [i \in 1..Done |-> i]
        BY <1>2 DEF IInv, RxInv
      <4>3. written \in Nat /\ taken <= written
        BY <4>2, RlcAssumption DEF TypeOK
      <4> QED
        BY <4>1, <4>2, <4>3, TypeFacts
    <3>2. RxInv' /\ Done' \in Nat /\ Done <= Done'
      BY <1>2, <2>2, ReceiveDataSafe
    <3>3. delivered' = [i \in 1..Done' |-> i] /\ Done' <= taken'
      <4>1. PICK h, m, x \in 0..taken' : RxAt(h, m, x)'
        BY <3>2 DEF RxInv
      <4>2. taken \in Nat
        BY <1>2, TypeFacts DEF IInv
      <4> QED
        BY <3>1, <3>2, <4>1, <4>2 DEF RxInv, RxAt
    <3>4. PICK d \in Nat : d = Done'
      BY <3>2
    <3>5. CASE d = Done
      BY <3>1, <3>3, <3>4, <3>5 DEF Service!vars
    <3>6. CASE d # Done
      <4>1. d \in Len(delivered) + 1..written
        <5>1. taken \in Nat
          BY <1>2, TypeFacts DEF IInv
        <5>2. d \in Done + 1..written
          BY <3>1, <3>2, <3>3, <3>4, <3>6, <5>1
        <5> QED
          BY <5>2 DEF Done
      <4> QED
        BY <3>1, <3>3, <3>4, <4>1 DEF Service!Deliver
    <3> QED
      BY <3>5, <3>6
  <2>3. CASE ~WriteSdu /\ ~ReceiveData
    <3>1. written' = written /\ delivered' = delivered
      BY <1>2, <2>3 DEF Next, Stack, ReadPdu, PollTimerExpires, PollTimerExpired, Nacked, Acked,
         StatusHandled, ReorderingExpires, SendStatus, ReceiveStatus, HandleStatus, LoseData,
         LoseStatus, vars, rxVars
    <3> QED
      BY <3>1 DEF Service!vars
  <2> QED
    BY <2>1, <2>2, <2>3
<1> QED
  BY <1>1, <1>2, IInvAlways, PTL DEF Spec, ServiceSpec, Service!Spec
=============================================================================
