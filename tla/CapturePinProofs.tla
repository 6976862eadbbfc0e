-------------------------- MODULE CapturePinProofs --------------------------
(***************************************************************************)
(* Proofs that a pin of CapturePin fills its client's buffers with the     *)
(* picture of the connection, and that formats agree with the device and   *)
(* with the aspect policy, for any pins, ranges, headers, aspects and any  *)
(* compiled table.                                                         *)
(***************************************************************************)
EXTENDS CapturePin, TLAPS, WellFoundedInduction

-----------------------------------------------------------------------------
(* The table that a policy makes (VirtuaCamSetAspectPolicy).  The loop over*)
(* the aspects is a recursion over naturals; that each of its rounds has   *)
(* the result it should follows from there being no first that has not.    *)

LEMMA LeastNatural ==
  ASSUME NEW T \in SUBSET Nat, T # {}
  PROVE  \E x \in T : \A y \in T : x <= y
<1> DEFINE Less == OpToRel(<, Nat)
<1>1. IsWellFoundedOn(Less, Nat)
  BY NatLessThanWellFounded
<1>2. \A x, y \in Nat : y < x => <<y, x>> \in Less
  BY DEF OpToRel
<1> HIDE DEF Less
<1>3. PICK x \in T : \A y \in T : <<y, x>> \notin Less
  BY <1>1, WFMin
<1>4. \A y \in T : ~(y < x)
  BY <1>2, <1>3
<1>. QED BY <1>4

LEMMA Climb ==
  ASSUME NEW N \in Nat, NEW T \in SUBSET (0 .. N), 0 \in T,
         \A n \in 0 .. N : n < N /\ n \in T => n + 1 \in T
  PROVE  N \in T
<1> SUFFICES ASSUME N \notin T PROVE FALSE
  OBVIOUS
<1> DEFINE Out == (0 .. N) \ T
<1>1. Out # {}
  BY DEF Out
<1>2. Out \in SUBSET Nat
  BY DEF Out
<1>3. \A x \in Out : x \in 0 .. N /\ x \notin T
  BY DEF Out
<1>4. \A x \in 0 .. N : x \notin T => x \in Out
  BY DEF Out
<1> HIDE DEF Out
<1>5. PICK x \in Out : \A y \in Out : x <= y
  BY <1>1, <1>2, LeastNatural
<1>6. x # 0 /\ x \in 0 .. N
  BY <1>3
<1>7. x - 1 \in 0 .. N /\ x - 1 < N /\ x - 1 + 1 = x
  BY <1>6
<1>8. x - 1 \notin Out
  BY <1>5, <1>6
<1>9. x - 1 \in T
  BY <1>4, <1>7, <1>8
<1>. QED BY <1>3, <1>7, <1>9


(* The search for an aspect that is allowed finds one.                     *)
LEMMA FirstAllowedIsAllowed ==
  ASSUME NEW mask \in SUBSET Aspect, mask # {}
  PROVE  AspectOrder[FirstAllowed(mask)] \in mask
<1> DEFINE T == {i \in DOMAIN AspectOrder : AspectOrder[i] \in mask}
<1>1. DOMAIN AspectOrder = 1 .. Len(AspectOrder) /\ Len(AspectOrder) \in Nat
  BY PinConstants
<1>2. T # {} /\ T \in SUBSET Nat
  BY <1>1 DEF Aspect, ToSet
<1>3. PICK i \in T : \A j \in T : i <= j
  <2> HIDE DEF T
  <2>. QED BY <1>2, LeastNatural
<1>4. \A j \in 1 .. i - 1 : AspectOrder[j] \notin mask
  BY <1>1, <1>3
<1>. QED BY <1>3, <1>4 DEF FirstAllowed

LEMMA PreferredIsAllowed ==
  ASSUME NEW a, NEW mask \in SUBSET Aspect, mask # {}
  PROVE  PreferredOf(a, mask) \in mask
BY FirstAllowedIsAllowed DEF PreferredOf

(* The loop's array after each round.                                      *)
Rounds(f, a, mask, m) ==
  f = [n \in 0 .. m |-> IF n = 0 THEN Appended(a, mask, 0)
                        ELSE f[n - 1] \o Appended(a, mask, n)]

LEMMA RoundsExist ==
  ASSUME NEW a, NEW mask
  PROVE  \E f : Rounds(f, a, mask, Len(AspectOrder))
<1> DEFINE N == Len(AspectOrder)
           T == {m \in 0 .. N : \E f : Rounds(f, a, mask, m)}
<1>1. N \in Nat
  BY PinConstants
<1>2. 0 \in T
  <2>1. Rounds([n \in 0 .. 0 |-> Appended(a, mask, 0)], a, mask, 0)
    BY DEF Rounds
  <2>. QED BY <1>1, <2>1
<1>3. ASSUME NEW n \in 0 .. N, n < N, n \in T
      PROVE  n + 1 \in T
  <2>1. PICK f : Rounds(f, a, mask, n)
    BY <1>3
  <2> DEFINE g == [k \in 0 .. n + 1 |-> IF k = n + 1
                     THEN f[n] \o Appended(a, mask, k) ELSE f[k]]
  <2>2. \A k \in 0 .. n + 1 : k # 0 => k - 1 \in 0 .. n /\ g[k - 1] = f[k - 1]
    BY <1>1
  <2>3. ASSUME NEW k \in 0 .. n + 1
        PROVE  g[k] = IF k = 0 THEN Appended(a, mask, 0)
                      ELSE g[k - 1] \o Appended(a, mask, k)
    <3>1. CASE k = n + 1
      <4>1. k # 0 /\ k - 1 = n
        BY <1>1, <3>1
      <4>2. g[k - 1] = f[n]
        BY <2>2, <4>1
      <4>3. g[k] = f[n] \o Appended(a, mask, k)
        BY <3>1
      <4>. QED BY <4>1, <4>2, <4>3
    <3>2. CASE k # n + 1
      <4>1. k \in 0 .. n
        BY <1>1, <3>2
      <4>2. f[k] = IF k = 0 THEN Appended(a, mask, 0)
                   ELSE f[k - 1] \o Appended(a, mask, k)
        BY <2>1, <4>1 DEF Rounds
      <4>. QED BY <2>2, <3>2, <4>2
    <3>. QED BY <3>1, <3>2
  <2>4. g = [k \in 0 .. n + 1 |-> g[k]]
    OBVIOUS
  <2>5. Rounds(g, a, mask, n + 1)
    <3> HIDE DEF g
    <3>. QED BY <2>3, <2>4 DEF Rounds
  <2>6. n + 1 \in 0 .. N
    BY <1>1, <1>3
  <2> HIDE DEF g
  <2>. QED BY <2>5, <2>6
<1>4. N \in T
  <2> HIDE DEF T
  <2>1. T \in SUBSET (0 .. N)
    BY DEF T
  <2> HIDE DEF N
  <2>. QED BY <1>1, <1>2, <1>3, <2>1, Climb
<1>. QED BY <1>4

LEMMA OrderedIsLastRound ==
  ASSUME NEW a, NEW mask
  PROVE  \E f : /\ Rounds(f, a, mask, Len(AspectOrder))
                /\ Ordered(a, mask) = f[Len(AspectOrder)]
<1> DEFINE f == CHOOSE f : Rounds(f, a, mask, Len(AspectOrder))
<1>1. Rounds(f, a, mask, Len(AspectOrder))
  BY RoundsExist
<1>2. Ordered(a, mask) = f[Len(AspectOrder)]
  BY DEF Ordered, Rounds
<1> HIDE DEF f
<1>. QED BY <1>1, <1>2

(* What two sequences hold one after the other.                            *)
LEMMA ToSetOfBoth ==
  ASSUME NEW S, NEW s \in Seq(S), NEW t \in Seq(S)
  PROVE  /\ s \o t \in Seq(S) /\ Len(s \o t) = Len(s) + Len(t)
         /\ s # <<>> => s \o t # <<>> /\ (s \o t)[1] = s[1]
         /\ \A x : x \in ToSet(s \o t) <=> x \in ToSet(s) \/ x \in ToSet(t)
<1>1. /\ s \o t \in Seq(S) /\ Len(s \o t) = Len(s) + Len(t)
      /\ Len(s) \in Nat /\ Len(t) \in Nat
      /\ DOMAIN s = 1 .. Len(s) /\ DOMAIN t = 1 .. Len(t)
      /\ DOMAIN (s \o t) = 1 .. Len(s) + Len(t)
  OBVIOUS
<1>2. \A i \in 1 .. Len(s) : (s \o t)[i] = s[i]
  OBVIOUS
<1>3. \A i \in 1 .. Len(t) : (s \o t)[i + Len(s)] = t[i]
  OBVIOUS
<1>4. \A i \in 1 .. Len(s) + Len(t) :
        i \in 1 .. Len(s) \/ (i - Len(s) \in 1 .. Len(t) /\ i - Len(s) + Len(s) = i)
  BY <1>1
<1>5. \A i \in 1 .. Len(t) : i + Len(s) \in 1 .. Len(s) + Len(t)
  BY <1>1
<1>6. \A i \in 1 .. Len(s) : i \in 1 .. Len(s) + Len(t)
  BY <1>1
<1>7. s # <<>> => s \o t # <<>> /\ (s \o t)[1] = s[1]
  OBVIOUS
<1>8. ASSUME NEW x
      PROVE  x \in ToSet(s \o t) <=> x \in ToSet(s) \/ x \in ToSet(t)
  <2>1. ASSUME x \in ToSet(s \o t) PROVE x \in ToSet(s) \/ x \in ToSet(t)
    <3>1. PICK i \in 1 .. Len(s) + Len(t) : x = (s \o t)[i]
      BY <1>1, <2>1 DEF ToSet
    <3>. QED BY <1>1, <1>2, <1>3, <1>4, <3>1 DEF ToSet
  <2>2. ASSUME x \in ToSet(s) PROVE x \in ToSet(s \o t)
    BY <1>1, <1>2, <1>6, <2>2 DEF ToSet
  <2>3. ASSUME x \in ToSet(t) PROVE x \in ToSet(s \o t)
    BY <1>1, <1>3, <1>5, <2>3 DEF ToSet
  <2>. QED BY <2>1, <2>2, <2>3
<1>. QED BY <1>1, <1>7, <1>8

(* The ordered list holds the ranges of the aspects allowed and no other,  *)
(* those of the preferred one first.                                       *)
Offered(x, mask) == \E b \in mask : x \in ToSet(AspectRanges[b])

LEMMA OrderedOffers ==
  ASSUME NEW a \in Aspect, NEW mask \in SUBSET Aspect, a \in mask
  PROVE  /\ Ordered(a, mask) \in Seq(DataRange) \ {<<>>}
         /\ Ordered(a, mask)[1] = AspectRanges[a][1]
         /\ \A x : x \in ToSet(Ordered(a, mask)) <=> Offered(x, mask)
<1> DEFINE N == Len(AspectOrder)
           Visited(m) == {a} \cup {AspectOrder[k] : k \in 1 .. m}
           Good(s, m) ==
             /\ s \in Seq(DataRange) \ {<<>>} /\ s[1] = AspectRanges[a][1]
             /\ \A x : x \in ToSet(s) <=> Offered(x, mask \cap Visited(m))
<1>1. N \in Nat /\ DOMAIN AspectOrder = 1 .. N /\ Aspect = {AspectOrder[k] : k \in 1 .. N}
  BY PinConstants DEF Aspect, ToSet
<1>2. \A b \in Aspect : AspectRanges[b] \in Seq(DataRange) \ {<<>>}
  BY PinConstants
<1>3. PICK f : /\ Rounds(f, a, mask, N) /\ Ordered(a, mask) = f[N]
  BY OrderedIsLastRound
<1>4. \A n \in 0 .. N : f[n] = IF n = 0 THEN Appended(a, mask, 0)
                               ELSE f[n - 1] \o Appended(a, mask, n)
  BY <1>3 DEF Rounds
<1> DEFINE T == {m \in 0 .. N : Good(f[m], m)}
<1>5. 0 \in T
  <2>1. f[0] = AspectRanges[a]
    BY <1>1, <1>4 DEF Appended
  <2>2. Visited(0) = {a}
    OBVIOUS
  <2>3. \A x : x \in ToSet(f[0]) <=> Offered(x, mask \cap Visited(0))
    <3> HIDE DEF Visited
    <3>. QED BY <2>1, <2>2 DEF Offered
  <2>. QED BY <1>1, <1>2, <2>1, <2>3
<1>6. ASSUME NEW n \in 0 .. N, n < N, n \in T
      PROVE  n + 1 \in T
  <2>1. PICK k \in 0 .. N : k = n + 1 /\ k # 0 /\ k > 0 /\ k - 1 = n
    BY <1>1, <1>6
  <2> DEFINE b == AspectOrder[k]
  <2>2. f[k] = f[n] \o Appended(a, mask, k)
    BY <1>4, <2>1
  <2>3. b \in Aspect
    BY <1>1, <2>1
  <2>4. Appended(a, mask, k) =
          IF b \in mask /\ b # a THEN AspectRanges[b] ELSE <<>>
    BY <2>1 DEF Appended
  <2>5. Visited(k) = Visited(n) \cup {b}
    BY <1>1, <2>1
  <2>6. Good(f[n], n)
    BY <1>6
  <2> HIDE DEF b, Visited, N
  <2>7. CASE b \in mask /\ b # a
    <3> DEFINE s == f[n]
               t == AspectRanges[b]
    <3>1. f[k] = s \o t /\ s \in Seq(DataRange) /\ s # <<>>
          /\ t \in Seq(DataRange)
      BY <1>2, <2>2, <2>3, <2>4, <2>6, <2>7
    <3>2. s[1] = AspectRanges[a][1]
          /\ \A x : x \in ToSet(s) <=> Offered(x, mask \cap Visited(n))
      BY <2>6
    <3> HIDE DEF s
    <3>3. /\ f[k] \in Seq(DataRange) /\ f[k] # <<>> /\ f[k][1] = s[1]
          /\ \A x : x \in ToSet(f[k]) <=> x \in ToSet(s) \/ x \in ToSet(t)
      BY <3>1, ToSetOfBoth
    <3>4. \A x : x \in ToSet(f[k]) <=> Offered(x, mask \cap Visited(k))
      BY <2>5, <2>7, <3>2, <3>3 DEF Offered
    <3>. QED BY <2>1, <3>2, <3>3, <3>4
  <2>8. CASE ~(b \in mask /\ b # a)
    <3>1. f[k] = f[n] \o <<>>
      BY <2>2, <2>4, <2>8
    <3>2. f[k] = f[n]
      BY <2>6, <3>1
    <3>3. mask \cap Visited(k) = mask \cap Visited(n)
      BY <2>5, <2>8 DEF Visited
    <3>. QED BY <2>1, <2>6, <3>2, <3>3
  <2>. QED BY <2>7, <2>8
<1>7. N \in T
  <2> HIDE DEF T
  <2>1. T \in SUBSET (0 .. N)
    BY DEF T
  <2> HIDE DEF N
  <2>. QED BY <1>1, <1>5, <1>6, <2>1, Climb
<1>8. mask \cap Visited(N) = mask
  BY <1>1
<1>9. Good(f[N], N)
  BY <1>7
<1> HIDE DEF Visited, N
<1>. QED BY <1>3, <1>8, <1>9

(* The table is the list, repeated.                                        *)
LEMMA FilledIsList ==
  ASSUME NEW s \in Seq(DataRange), s # <<>>, Len(s) <= TableSize
  PROVE  /\ Filled(s) \in [1 .. TableSize -> DataRange]
         /\ ToSet(Filled(s)) = ToSet(s)
         /\ Filled(s)[1] = s[1]
<1>1. Len(s) \in Nat \ {0} /\ DOMAIN s = 1 .. Len(s) /\ TableSize \in Nat
  BY PinConstants DEF TableSize
<1>2. \A i \in 1 .. TableSize : ((i - 1) % Len(s)) + 1 \in 1 .. Len(s)
  BY <1>1
<1>3. \A i \in 1 .. Len(s) : i \in 1 .. TableSize /\ ((i - 1) % Len(s)) + 1 = i
  BY <1>1
<1>4. \A i \in 1 .. TableSize : Filled(s)[i] \in ToSet(s)
  BY <1>1, <1>2 DEF Filled, ToSet
<1>5. \A i \in 1 .. Len(s) : Filled(s)[i] = s[i]
  BY <1>1, <1>3 DEF Filled
<1>6. DOMAIN Filled(s) = 1 .. TableSize
  BY DEF Filled
<1>7. Filled(s) \in [1 .. TableSize -> DataRange]
  BY <1>2 DEF Filled
<1>8. ToSet(Filled(s)) = ToSet(s)
  BY <1>1, <1>3, <1>4, <1>5, <1>6 DEF ToSet
<1>. QED BY <1>1, <1>5, <1>7, <1>8

(* What a change of policy leaves.                                         *)
LEMMA PolicyIsSet ==
  ASSUME NEW a, NEW mask \in SUBSET Aspect, mask # {}, SetAspectPolicy(a, mask)
  PROVE  /\ preferred' \in mask /\ allowed' = mask
         /\ table' \in [1 .. TableSize -> DataRange]
         /\ table'[1] = AspectRanges[preferred'][1]
         /\ ToSet(table') = UNION {ToSet(AspectRanges[b]) : b \in mask}
<1> DEFINE best == PreferredOf(a, mask)
           list == Ordered(best, mask)
<1>1. /\ preferred' = best /\ allowed' = mask /\ table' = Filled(list)
  BY DEF SetAspectPolicy
<1>2. best \in mask
  BY PreferredIsAllowed
<1>3. /\ list \in Seq(DataRange) \ {<<>>}
      /\ list[1] = AspectRanges[best][1]
      /\ \A x : x \in ToSet(list) <=> Offered(x, mask)
  <2> HIDE DEF best
  <2>. QED BY <1>2, OrderedOffers
<1>4. Len(list) <= TableSize
  <2> HIDE DEF best
  <2>. QED BY <1>2, AspectsFit
<1> HIDE DEF best, list
<1>5. /\ table' \in [1 .. TableSize -> DataRange]
      /\ table'[1] = list[1] /\ ToSet(table') = ToSet(list)
  BY <1>1, <1>3, <1>4, FilledIsList
<1>6. ToSet(list) = UNION {ToSet(AspectRanges[b]) : b \in mask}
  BY <1>3 DEF Offered
<1>. QED BY <1>1, <1>2, <1>3, <1>5, <1>6

-----------------------------------------------------------------------------
(* The invariant.                                                          *)

PolicyTypes ==
  /\ preferred \in Aspect /\ allowed \in SUBSET Aspect /\ allowed # {}
  /\ table \in [1 .. TableSize -> DataRange]
DeviceTypes ==
  /\ sinks \in Seq(Pin) /\ config \in DataRange \cup {Absent}
  /\ hw \in {"Stopped", "Paused", "Running"}
  /\ shape \in DataRange \cup {Absent} /\ uploaded \in BOOLEAN

(* A pin has a format from creation to close, the copy of the header is    *)
(* that of the format, it is only processed while it runs, and what its    *)
(* client got last is forgotten when the format changes.                   *)
Connected(q) ==
  /\ q.state = "closed" => q.format = Absent
  /\ q.state # "closed" => q.format \in Format /\ q.format.header <= q.room
  /\ q.info = q.format
  /\ q.due => q.state = "run"
  /\ q.last # Absent => q.last.range = q.format.range /\ q.last.fits

PinsSound ==
  /\ pin \in [Pin -> PinState]
  /\ \A p \in Pin : Connected(pin[p])

Inv ==
  /\ PolicyTypes /\ DeviceTypes /\ TableFollowsPolicy
  /\ offer \in [Pin -> Format \cup {Absent}]
  /\ PinsSound

LEMMA InvGives == Inv => TypeOK /\ ClientGetsItsPicture /\ FormatsAgree
<1> SUFFICES ASSUME Inv PROVE TypeOK /\ ClientGetsItsPicture /\ FormatsAgree
  OBVIOUS
<1>1. TypeOK
  BY DEF Inv, PolicyTypes, DeviceTypes, PinsSound, TypeOK
<1>2. ClientGetsItsPicture
  BY DEF Inv, PinsSound, Connected, ClientGetsItsPicture
<1>3. HeaderIsTheConnections
  BY DEF Inv, PinsSound, Connected, HeaderIsTheConnections, In
<1>. QED BY <1>1, <1>2, <1>3 DEF FormatsAgree, Inv

(* A closed pin is sound.                                                  *)
LEMMA ClosedIsSound == Closed \in PinState /\ Connected(Closed)
  BY DEF Closed, PinState, Connected

(* The device, and all pins but one, are left alone.                       *)
LEMMA OnePin ==
  ASSUME PinsSound, NEW p \in Pin, NEW q \in PinState, Connected(q),
         pin' = [pin EXCEPT ![p] = q]
  PROVE  PinsSound'
  BY DEF PinsSound

(* A sink that goes leaves a table of sinks.                               *)
LEMMA SinksRemain ==
  ASSUME sinks \in Seq(Pin), NEW p
  PROVE  SinksWithout(p) \in Seq(Pin)
<1>1. CASE p \in ToSet(sinks)
  <2> DEFINE i == CHOOSE i \in DOMAIN sinks : sinks[i] = p
  <2>1. i \in DOMAIN sinks
    BY <1>1 DEF ToSet
  <2> HIDE DEF i
  <2>2. i \in 1 .. Len(sinks)
    BY <2>1
  <2>3. /\ SubSeq(sinks, 1, i - 1) \in Seq(Pin)
        /\ SubSeq(sinks, i + 1, Len(sinks)) \in Seq(Pin)
    BY <2>2
  <2>. QED BY <1>1, <2>3 DEF SinksWithout, RemoveAt, i
<1>2. CASE p \notin ToSet(sinks)
  BY <1>2 DEF SinksWithout
<1>. QED BY <1>1, <1>2

LEMMA LeavingKeepsTypes ==
  ASSUME DeviceTypes, NEW p, LeaveDevice(p)
  PROVE  DeviceTypes'
<1>1. sinks' \in Seq(Pin)
  BY SinksRemain DEF LeaveDevice, DeviceTypes
<1>2. config' \in DataRange \cup {Absent}
  BY DEF LeaveDevice, DeviceTypes, ConfigWithout
<1>3. hw' \in {"Stopped", "Paused", "Running"}
  BY DEF LeaveDevice, DeviceTypes, HwWithout
<1>4. shape' \in DataRange \cup {Absent}
  BY DEF LeaveDevice, DeviceTypes
<1>5. uploaded' \in BOOLEAN
  BY DEF LeaveDevice
<1>. QED BY <1>1, <1>2, <1>3, <1>4, <1>5 DEF DeviceTypes

(* Whatever the hardware holds, what is copied has the pin's geometry.     *)
LEMMA ImageIsThePins ==
  ASSUME NEW r
  PROVE  CopyImageToStreamHeader(r) = r
  BY DEF CopyImageToStreamHeader, SameShape, FillResampledFrame,
         FillDirectFrame

-----------------------------------------------------------------------------
(* The steps.                                                              *)

LEMMA InitInv == Init => Inv
<1> SUFFICES ASSUME Init PROVE Inv
  OBVIOUS
<1>1. AspectOrder[1] \in Aspect
  BY PinConstants
<1>2. PolicyTypes
  <2>1. InitialTable \in [1 .. TableSize -> DataRange]
    BY PinConstants DEF TableSize
  <2>2. preferred = AspectOrder[1] /\ allowed = Aspect /\ table = InitialTable
    BY DEF Init
  <2>3. allowed \in SUBSET Aspect /\ allowed # {}
    BY <1>1, <2>2
  <2>. QED BY <1>1, <2>1, <2>2, <2>3 DEF PolicyTypes
<1>3. DeviceTypes
  <2>1. uploaded \in BOOLEAN
    BY DEF Init
  <2>2. sinks \in Seq(Pin) /\ hw = "Stopped"
    BY DEF Init
  <2>3. config = Absent /\ shape = Absent
    BY DEF Init
  <2>. QED BY <2>1, <2>2, <2>3 DEF DeviceTypes
<1>4. PinsSound
  BY ClosedIsSound DEF Init, PinsSound
<1>. QED BY <1>2, <1>3, <1>4 DEF Init, Inv, TableFollowsPolicy

(* The policy and the device stay.                                         *)
LEMMA PinStep ==
  ASSUME Inv, NEW p \in Pin, UNCHANGED <<policyVars, deviceVars>>,
         offer' \in [Pin -> Format \cup {Absent}],
         NEW q \in PinState, Connected(q), pin' = [pin EXCEPT ![p] = q]
  PROVE  Inv'
<1>1. PinsSound'
  BY OnePin DEF Inv
<1>. QED BY <1>1 DEF Inv, PolicyTypes, DeviceTypes, TableFollowsPolicy,
                     policyVars, deviceVars

(* The policy stays.                                                       *)
LEMMA DeviceStep ==
  ASSUME Inv, NEW p \in Pin, UNCHANGED <<policyVars, offer>>, DeviceTypes',
         NEW q \in PinState, Connected(q), pin' = [pin EXCEPT ![p] = q]
  PROVE  Inv'
<1>1. PinsSound'
  BY OnePin DEF Inv
<1>. QED BY <1>1 DEF Inv, PolicyTypes, TableFollowsPolicy, policyVars

LEMMA PolicyStep ==
  ASSUME Inv, NEW a, NEW mask \in SUBSET Aspect, mask # {},
         SetAspectPolicy(a, mask)
  PROVE  Inv'
<1>1. /\ preferred' \in mask /\ allowed' = mask
      /\ table' \in [1 .. TableSize -> DataRange]
      /\ table'[1] = AspectRanges[preferred'][1]
      /\ ToSet(table') = UNION {ToSet(AspectRanges[b]) : b \in mask}
  BY PolicyIsSet
<1>2. PolicyTypes'
  <2>1. preferred' \in Aspect
    BY <1>1
  <2>. QED BY <1>1, <2>1 DEF PolicyTypes
<1>4. TableFollowsPolicy'
  BY <1>1 DEF TableFollowsPolicy
<1>3. UNCHANGED <<offer, pin, deviceVars>>
  BY DEF SetAspectPolicy
<1>. QED BY <1>2, <1>3, <1>4 DEF Inv, DeviceTypes, PinsSound, deviceVars

LEMMA SetPreferredAspectInv == ASSUME Inv, SetPreferredAspect PROVE Inv'
<1>1. PICK a \in Aspect : SetAspectPolicy(a, allowed)
  BY DEF SetPreferredAspect
<1>2. allowed \in SUBSET Aspect /\ allowed # {}
  BY DEF Inv, PolicyTypes
<1>. QED BY <1>1, <1>2, PolicyStep

LEMMA SetAllowedAspectsInv == ASSUME Inv, SetAllowedAspects PROVE Inv'
<1>1. PICK mask \in SUBSET Aspect :
        SetAspectPolicy(preferred, IF mask = {} THEN Aspect ELSE mask)
  BY DEF SetAllowedAspects
<1>2. Aspect # {}
  BY DEF Inv, PolicyTypes
<1>. QED BY <1>1, <1>2, PolicyStep

LEMMA IntersectHandlerInv ==
  ASSUME Inv, NEW p \in Pin, IntersectHandler(p)
  PROVE  Inv'
  BY DEF IntersectHandler, Inv, PolicyTypes, DeviceTypes, TableFollowsPolicy,
         PinsSound, policyVars, deviceVars

LEMMA DispatchCreateInv ==
  ASSUME Inv, NEW p \in Pin, DispatchCreate(p)
  PROVE  Inv'
<1> DEFINE f == offer[p]
           o == [Closed EXCEPT !.state = "stop", !.format = f]
           c == CaptureVideoInfoHeader(o, f)
           q == [c EXCEPT !.framing = SizeOf[f.range]]
<1>1. f \in Format /\ f.header \in Nat /\ SizeOf[f.range] \in Nat
  BY PinConstants DEF DispatchCreate, Inv
<1>2. /\ q.state = "stop" /\ q.format = f /\ q.info = f
      /\ q.room = f.header /\ q.due = FALSE /\ q.last = Absent
      /\ q \in PinState
  <2>1. /\ o \in PinState /\ o.state = "stop" /\ o.format = f
        /\ o.info = Absent /\ o.due = FALSE /\ o.last = Absent
    BY <1>1, ClosedIsSound DEF Closed, PinState
  <2> HIDE DEF f, o
  <2>2. c = [o EXCEPT !.info = f, !.room = f.header]
    BY <2>1 DEF CaptureVideoInfoHeader
  <2>3. /\ c \in PinState /\ c.state = "stop" /\ c.format = f /\ c.info = f
        /\ c.room = f.header /\ c.due = FALSE /\ c.last = Absent
    BY <1>1, <2>1, <2>2 DEF PinState
  <2> HIDE DEF c
  <2>. QED BY <1>1, <2>3 DEF PinState
<1>3. pin' = [pin EXCEPT ![p] = q]
  BY DEF DispatchCreate
<1>4. /\ UNCHANGED <<policyVars, deviceVars>>
      /\ offer' \in [Pin -> Format \cup {Absent}]
  BY DEF DispatchCreate, Inv
<1> HIDE DEF q, f
<1>5. Connected(q)
  BY <1>1, <1>2 DEF Connected
<1>. QED BY <1>2, <1>3, <1>4, <1>5, PinStep

(* A pin that is open has a format.                                        *)
LEMMA OpenPin ==
  ASSUME Inv, NEW p \in Pin, ~In(p, {"closed"})
  PROVE  /\ pin[p] \in PinState /\ Connected(pin[p])
         /\ pin[p].format \in Format /\ pin[p].info = pin[p].format
         /\ pin[p].format.range \in DataRange
         /\ SizeOf[pin[p].format.range] \in Nat
  BY PinConstants DEF Inv, PinsSound, Connected, In

LEMMA DispatchSetFormatInv ==
  ASSUME Inv, NEW p \in Pin, DispatchSetFormat(p)
  PROVE  Inv'
<1>1. PICK f \in Format :
        /\ HeaderFits(pin[p], f)
        /\ pin' = [pin EXCEPT
             ![p] = [CaptureVideoInfoHeader(@, f) EXCEPT
                       !.format = f, !.last = Absent]]
  BY DEF DispatchSetFormat
<1> DEFINE c == CaptureVideoInfoHeader(pin[p], f)
           q == [c EXCEPT !.format = f, !.last = Absent]
<1>2. pin' = [pin EXCEPT ![p] = q]
  BY <1>1 DEF Inv, PinsSound
<1>3. /\ pin[p] \in PinState /\ Connected(pin[p])
      /\ pin[p].state \in {"stop", "acquire", "pause"}
  BY DEF DispatchSetFormat, In, Inv, PinsSound
<1>4. f.header \in Nat /\ f.header <= pin[p].room
  BY <1>1, PinConstants DEF HeaderFits
<1>5. /\ q \in PinState /\ q.state = pin[p].state /\ q.due = pin[p].due
      /\ q.format = f /\ q.info = f /\ f.header <= q.room /\ q.last = Absent
  <2>1. /\ c \in PinState /\ c.state = pin[p].state /\ c.due = pin[p].due
        /\ c.info = f /\ f.header <= c.room
    <3>1. CASE pin[p].info = Absent
      <4>1. c = [pin[p] EXCEPT !.info = f, !.room = f.header]
        BY <3>1 DEF CaptureVideoInfoHeader
      <4> HIDE DEF c
      <4>2. c \in PinState
        BY <1>3, <1>4, <4>1 DEF PinState
      <4>3. /\ c.state = pin[p].state /\ c.due = pin[p].due
            /\ c.info = f /\ c.room = f.header
        BY <1>3, <4>1 DEF PinState
      <4>. QED BY <1>4, <4>2, <4>3
    <3>2. CASE pin[p].info # Absent
      <4>1. c = [pin[p] EXCEPT !.info = f]
        BY <3>2 DEF CaptureVideoInfoHeader
      <4> HIDE DEF c
      <4>. QED BY <1>3, <1>4, <4>1 DEF PinState
    <3>. QED BY <3>1, <3>2
  <2> HIDE DEF c
  <2>. QED BY <2>1 DEF PinState
<1> HIDE DEF q
<1>6. Connected(q)
  BY <1>3, <1>5 DEF Connected
<1>7. UNCHANGED <<policyVars, offer, deviceVars>>
  BY DEF DispatchSetFormat
<1>. QED BY <1>2, <1>5, <1>6, <1>7, PinStep DEF Inv

(* SetState changes the state of a pin, and nothing that it is filled by.  *)
LEMMA StateMoves ==
  ASSUME Inv, NEW p \in Pin, ~In(p, {"closed"}),
         NEW s \in {"stop", "acquire", "pause", "run"}, ToState(p, s)
  PROVE  \E q \in PinState : Connected(q) /\ pin' = [pin EXCEPT ![p] = q]
<1> DEFINE q == [pin[p] EXCEPT !.state = s, !.due = pin[p].due /\ s = "run"]
<1>1. pin' = [pin EXCEPT ![p] = q]
  BY DEF ToState, Inv, PinsSound, PinState
<1>2. pin[p] \in PinState /\ Connected(pin[p]) /\ pin[p].state # "closed"
  BY OpenPin DEF In
<1>3. q \in PinState
  BY <1>2 DEF PinState
<1>4. /\ q.state = s /\ q.due = (pin[p].due /\ s = "run")
      /\ q.format = pin[p].format /\ q.info = pin[p].info
      /\ q.room = pin[p].room /\ q.last = pin[p].last
  BY <1>2 DEF PinState
<1> HIDE DEF q
<1>5. Connected(q)
  BY <1>2, <1>4 DEF Connected
<1>. QED BY <1>1, <1>3, <1>5

LEMMA AcquireInv ==
  ASSUME Inv, NEW p \in Pin, Acquire(p)
  PROVE  Inv'
<1>1. PICK q \in PinState : Connected(q) /\ pin' = [pin EXCEPT ![p] = q]
  BY StateMoves DEF Acquire, In
<1>2. pin[p].info.range \in DataRange
  BY OpenPin DEF Acquire, In
<1>3. DeviceTypes'
  BY <1>2 DEF Acquire, Inv, DeviceTypes
<1>. QED BY <1>1, <1>3, DeviceStep DEF Acquire

LEMMA PauseOrAcquireInv ==
  ASSUME Inv, NEW p \in Pin, PauseOrAcquire(p)
  PROVE  Inv'
<1>1. PICK q \in PinState : Connected(q) /\ pin' = [pin EXCEPT ![p] = q]
  BY StateMoves DEF PauseOrAcquire, In
<1>. QED BY <1>1, PinStep DEF PauseOrAcquire, Inv

LEMMA RunInv ==
  ASSUME Inv, NEW p \in Pin, Run(p)
  PROVE  Inv'
<1>1. PICK q \in PinState : Connected(q) /\ pin' = [pin EXCEPT ![p] = q]
  BY StateMoves DEF Run, In
<1>2. DeviceTypes'
  BY DEF Run, Inv, DeviceTypes
<1>. QED BY <1>1, <1>2, DeviceStep DEF Run

LEMMA PauseInv ==
  ASSUME Inv, NEW p \in Pin, Pause(p)
  PROVE  Inv'
<1>1. PICK q \in PinState : Connected(q) /\ pin' = [pin EXCEPT ![p] = q]
  BY StateMoves DEF Pause, Running, In
<1>2. DeviceTypes'
  BY DEF Pause, Inv, DeviceTypes, HwWithout
<1>. QED BY <1>1, <1>2, DeviceStep DEF Pause

LEMMA StopInv ==
  ASSUME Inv, NEW p \in Pin, Stop(p)
  PROVE  Inv'
<1> DEFINE q == [pin[p] EXCEPT !.state = "stop", !.buffer = 0,
                               !.last = Absent]
<1>1. pin' = [pin EXCEPT ![p] = q]
  BY DEF Stop, Inv, PinsSound, PinState
<1>2. pin[p] \in PinState /\ Connected(pin[p]) /\ pin[p].state = "acquire"
  BY DEF Stop, In, Inv, PinsSound
<1>3. q \in PinState
  BY <1>2 DEF PinState
<1>4. /\ q.state = "stop" /\ q.due = pin[p].due
      /\ q.format = pin[p].format /\ q.info = pin[p].info
      /\ q.room = pin[p].room /\ q.last = Absent
  BY <1>2 DEF PinState
<1> HIDE DEF q
<1>5. Connected(q)
  BY <1>2, <1>4 DEF Connected
<1>6. DeviceTypes'
  BY LeavingKeepsTypes DEF Stop, Inv
<1>. QED BY <1>1, <1>3, <1>5, <1>6, DeviceStep DEF Stop

LEMMA DispatchCloseInv ==
  ASSUME Inv, NEW p \in Pin, DispatchClose(p)
  PROVE  Inv'
<1>1. DeviceTypes'
  BY LeavingKeepsTypes DEF DispatchClose, Inv
<1>. QED BY <1>1, ClosedIsSound, DeviceStep DEF DispatchClose

LEMMA QueueBufferInv ==
  ASSUME Inv, NEW p \in Pin, QueueBuffer(p)
  PROVE  Inv'
<1>1. PICK size \in {pin[p].framing, SizeOf[pin[p].format.range]} :
        pin' = [pin EXCEPT ![p].buffer = size, ![p].last = Absent]
  BY DEF QueueBuffer
<1> DEFINE q == [pin[p] EXCEPT !.buffer = size, !.last = Absent]
<1>2. pin' = [pin EXCEPT ![p] = q]
  BY <1>1 DEF Inv, PinsSound, PinState
<1>3. /\ pin[p] \in PinState /\ Connected(pin[p])
      /\ SizeOf[pin[p].format.range] \in Nat
  BY OpenPin DEF QueueBuffer, In
<1>4. size \in Nat
  BY <1>3 DEF PinState
<1>5. q \in PinState
  BY <1>3, <1>4 DEF PinState
<1>6. /\ q.state = pin[p].state /\ q.due = pin[p].due
      /\ q.format = pin[p].format /\ q.info = pin[p].info
      /\ q.room = pin[p].room /\ q.last = Absent
  BY <1>3 DEF PinState
<1> HIDE DEF q
<1>7. Connected(q)
  BY <1>3, <1>6 DEF Connected
<1>. QED BY <1>2, <1>5, <1>7, PinStep DEF QueueBuffer, Inv

LEMMA InterruptInv == ASSUME Inv, Interrupt PROVE Inv'
<1>1. pin' = [p \in Pin |-> IF p \in Interrupted
                            THEN CompleteMappings(pin[p]) ELSE pin[p]]
  BY DEF Interrupt
<1>2. ASSUME NEW p \in Pin
      PROVE  LET q == CompleteMappings(pin[p])
             IN  q \in PinState /\ Connected(q)
  <2> DEFINE q == CompleteMappings(pin[p])
  <2>1. pin[p] \in PinState /\ Connected(pin[p])
    BY DEF Inv, PinsSound
  <2>2. q \in PinState
    BY <2>1 DEF CompleteMappings, PinState
  <2>3. /\ q.state = pin[p].state /\ q.format = pin[p].format
        /\ q.info = pin[p].info /\ q.room = pin[p].room
        /\ q.last = pin[p].last
    BY <2>1 DEF CompleteMappings, PinState
  <2>4. q.due => pin[p].due \/ pin[p].state = "run"
    BY <2>1 DEF CompleteMappings, PinState
  <2> HIDE DEF q
  <2>5. Connected(q)
    BY <2>1, <2>3, <2>4 DEF Connected
  <2>. QED BY <2>2, <2>5 DEF q
<1>3. PinsSound'
  BY <1>1, <1>2 DEF Inv, PinsSound
<1>. QED BY <1>3 DEF Interrupt, Inv, PolicyTypes, DeviceTypes,
                     TableFollowsPolicy, policyVars, deviceVars

LEMMA ProcessInv ==
  ASSUME Inv, NEW p \in Pin, Process(p)
  PROVE  Inv'
<1> DEFINE r == pin[p].info.range
           q == [pin[p] EXCEPT !.due = FALSE, !.buffer = 0,
                   !.last = [range |-> r, fits |-> TRUE]]
<1>1. /\ pin[p] \in PinState /\ Connected(pin[p]) /\ pin[p].due
  BY DEF Process, Inv, PinsSound
<1>2. pin[p].state = "run" /\ ~In(p, {"closed"})
  BY <1>1 DEF Connected, In
<1>3. pin[p].info = pin[p].format /\ r \in DataRange
  BY <1>2, OpenPin
<1>4. SizeOf[r] <= pin[p].buffer
  BY ImageIsThePins DEF Process, RoomFor
<1>5. pin' = [pin EXCEPT ![p].due = FALSE, ![p].buffer = 0,
                ![p].last = [range |-> r, fits |-> SizeOf[r] <= pin[p].buffer]]
  BY ImageIsThePins DEF Process
<1>6. pin' = [pin EXCEPT ![p] = q]
  BY <1>4, <1>5 DEF Inv, PinsSound, PinState
<1>7. q \in PinState
  BY <1>1, <1>3 DEF PinState
<1>8. /\ q.state = pin[p].state /\ q.format = pin[p].format
      /\ q.info = pin[p].info /\ q.room = pin[p].room
      /\ q.last = [range |-> r, fits |-> TRUE] /\ q.due = FALSE
  BY <1>1 DEF PinState
<1>9. Connected(q)
  <2> HIDE DEF q
  <2>. QED BY <1>1, <1>2, <1>3, <1>8 DEF Connected
<1> HIDE DEF q
<1>. QED BY <1>6, <1>7, <1>9, PinStep DEF Process, Inv

LEMMA ProcessPendsInv ==
  ASSUME Inv, NEW p \in Pin, ProcessPends(p)
  PROVE  Inv'
<1> DEFINE q == [pin[p] EXCEPT !.due = FALSE]
<1>1. pin' = [pin EXCEPT ![p] = q]
  BY DEF ProcessPends, Inv, PinsSound, PinState
<1>2. pin[p] \in PinState /\ Connected(pin[p])
  BY DEF Inv, PinsSound
<1>3. q \in PinState
  BY <1>2 DEF PinState
<1>4. /\ q.state = pin[p].state /\ q.due = FALSE
      /\ q.format = pin[p].format /\ q.info = pin[p].info
      /\ q.room = pin[p].room /\ q.last = pin[p].last
  BY <1>2 DEF PinState
<1> HIDE DEF q
<1>5. Connected(q)
  BY <1>2, <1>4 DEF Connected
<1>. QED BY <1>1, <1>3, <1>5, PinStep DEF ProcessPends, Inv

LEMMA UploadInv == ASSUME Inv, Upload PROVE Inv'
  BY DEF Upload, Inv, PolicyTypes, DeviceTypes, TableFollowsPolicy, PinsSound,
         policyVars

LEMMA NextInv == Inv /\ [Next]_vars => Inv'
<1> SUFFICES ASSUME Inv, [Next]_vars PROVE Inv'
  OBVIOUS
<1>1. CASE SetPreferredAspect
  BY <1>1, SetPreferredAspectInv
<1>2. CASE SetAllowedAspects
  BY <1>2, SetAllowedAspectsInv
<1>3. CASE Upload
  BY <1>3, UploadInv
<1>4. CASE Interrupt
  BY <1>4, InterruptInv
<1>5. ASSUME NEW p \in Pin, IntersectHandler(p) \/ DispatchCreate(p)
                            \/ DispatchSetFormat(p) \/ DispatchClose(p)
      PROVE  Inv'
  BY <1>5, IntersectHandlerInv, DispatchCreateInv, DispatchSetFormatInv,
     DispatchCloseInv
<1>6. ASSUME NEW p \in Pin, Acquire(p) \/ PauseOrAcquire(p) \/ Run(p)
                            \/ Pause(p) \/ Stop(p)
      PROVE  Inv'
  BY <1>6, AcquireInv, PauseOrAcquireInv, RunInv, PauseInv, StopInv
<1>7. ASSUME NEW p \in Pin, QueueBuffer(p) \/ Process(p) \/ ProcessPends(p)
      PROVE  Inv'
  BY <1>7, QueueBufferInv, ProcessInv, ProcessPendsInv
<1>8. CASE UNCHANGED vars
  BY <1>8 DEF Inv, PolicyTypes, DeviceTypes, TableFollowsPolicy, PinsSound,
              vars, policyVars, deviceVars
<1>. QED BY <1>1, <1>2, <1>3, <1>4, <1>5, <1>6, <1>7, <1>8 DEF Next

-----------------------------------------------------------------------------
(* What the run checks.                                                    *)

LEMMA PinInv == Spec => []Inv
  BY InitInv, NextInv, PTL DEF Spec

(* Every variable of pins, device and policy keeps its type.               *)
THEOREM PinTypes == Spec => []TypeOK
  BY PinInv, InvGives, PTL

(* A client gets the picture its pin is connected for, whole and inside    *)
(* its buffer, whoever gave the hardware its geometry                      *)
(* (CCapturePin::Process, CopyImageToStreamHeader).                        *)
THEOREM PictureIsTheClients == Spec => []ClientGetsItsPicture
  BY PinInv, InvGives, PTL

(* The header a pin is filled by is the one last accepted and fits what    *)
(* was allocated for the first (CaptureVideoInfoHeader), and the list of   *)
(* ranges offers what the policy allows, the preferred aspect first        *)
(* (VirtuaCamSetAspectPolicy).                                             *)
THEOREM FormatsDoAgree == Spec => []FormatsAgree
  BY PinInv, InvGives, PTL

=============================================================================
