----------------------------- MODULE UsbBusProofs -----------------------------
(***************************************************************************)
(* Proofs about how USB devices are found, for every set of PCI functions, *)
(* every device at every port and whatever fails: where the driver has a   *)
(* device, that device is, alone at its address, with its own descriptors, *)
(* and if nothing fails none is missed.  At the end, the heap the transfer *)
(* descriptors are allocated from.                                         *)
(***************************************************************************)
EXTENDS UsbBus, FiniteSetTheorems, SequenceTheorems, TLAPS

Enumerating == {"port", "describe", "check", "configuration"}

\* A sequence, of whatever.
IsSeq(s) == s \in Seq({s[k] : k \in DOMAIN s})

\* The functions that were found so far, in their order, and what i counts.
ScanInv == /\ pciDevices \in Seq(1..Len(Bus))
           /\ \A a, b \in DOMAIN pciDevices : a < b => pciDevices[a] < pciDevices[b]
           /\ pc = "scan" => /\ i \in 1..Len(Bus)+1
                             /\ \A a \in DOMAIN pciDevices : pciDevices[a] < i
           /\ \A f \in 1..Len(Bus) : Bus[f] # "absent" /\ (pc = "scan" => f < i) =>
                \E a \in DOMAIN pciDevices : pciDevices[a] = f
           /\ pc \in {"ehci", "uhci"} \cup Enumerating => i \in DOMAIN pciDevices
           /\ pc \in Enumerating => Bus[pciDevices[i]] = "uhci"

\* The ports are taken from the USB 2 controllers before a port is looked at.
RoutedInv == /\ pc = "scan" /\ routed => \E f \in 1..Len(Bus) : Bus[f] = "ehci"
             /\ pc = "ehci" /\ routed =>
                  \E a \in DOMAIN pciDevices : a >= i /\ Bus[pciDevices[a]] = "ehci"
             /\ pc \notin {"scan", "ehci"} => ~routed

\* The place has had its turn.
Behind(p) == /\ pc \notin {"scan", "ehci"}
             /\ pc = "uhci" => p[1] < pciDevices[i]
             /\ pc \in Enumerating => p[1] < pciDevices[i] \/ (p[1] = pciDevices[i] /\ p[2] < port)

\* The device whose registration is not finished.
Pending(k) == pc = "configuration" /\ k = Len(usbDevices)

IsDevice(d) == /\ d = [place |-> d.place, address |-> d.address, descriptor |-> d.descriptor,
                       configuration |-> d.configuration, before |-> d.before,
                       whole |-> d.whole]
               /\ DOMAIN d.configuration = 1..MaxPieces

\* The table: a device for a place at most, in their order.
DevicesInv == /\ IsSeq(usbDevices)
              /\ pc \in {"scan", "ehci"} => usbDevices = <<>>
              /\ pc = "storage" => i \in DOMAIN usbDevices
              /\ \A k \in DOMAIN usbDevices : IsDevice(usbDevices[k])
              /\ \A k, l \in DOMAIN usbDevices : usbDevices[k].place = usbDevices[l].place => k = l
              /\ \A k \in DOMAIN usbDevices : Pending(k) \/ Behind(usbDevices[k].place)
              /\ pc = "configuration" => Len(usbDevices) > 0 /\ Last.place = Here
                   /\ Last.configuration = Last.before /\ ~Last.whole
              /\ \A q \in left : Behind(q)

\* The other port of the controller.
Other == <<pciDevices[i], 1 - port>>

\* The table has the device at p at the address it answers at.
Found(p) == \E k \in DOMAIN usbDevices :
              usbDevices[k].place = p /\ usbDevices[k].address = address[p]

\* The port under enumeration and the other one of its controller.
PortsInv ==
  pc \in Enumerating =>
    /\ pc # "port" => Connected(Here)
    /\ pc # "configuration" => address[Here] = 0
    /\ pc \in {"describe", "check"} => enabled[Here]
    /\ pc = "check" => described \in Places /\ (Undisturbed(Here) => described = Here)
    /\ port = 0 => ~enabled[Other] /\ address[Other] = 0
    /\ port = 1 /\ pc # "configuration" /\ enabled[Other] => Other \in left \/ Found(Other)
    /\ pc = "configuration" /\ Undisturbed(Here) =>
         /\ enabled[Here] /\ address[Here] \in {0, Last.address}
         /\ Last.descriptor = Here
         /\ enabled[Other] => address[Other] # Last.address

\* It answers at the address of the k-th device.
Answers(q, k) == /\ q[1] = usbDevices[k].place[1] /\ Connected(q)
                 /\ enabled[q] /\ address[q] = usbDevices[k].address

\* A device that is registered is alone at its address.
RegisteredInv ==
  \A k \in DOMAIN usbDevices : Undisturbed(usbDevices[k].place) /\ pc # "undefined" =>
    Pending(k) \/ \A q \in Places : Answers(q, k) <=> q = usbDevices[k].place

Fits(kind) == kind.packet = 1 \/ kind.total <= kind.packet

\* The pieces of its configuration are its own or were there before.
OwnPieces(d) ==
  Fits(plugged[d.place]) =>
    \A q \in 1..MaxPieces :
      /\ d.configuration[q] \in {d.before[q], [of |-> d.place, piece |-> q]}
      /\ d.whole /\ q <= plugged[d.place].total =>
           d.configuration[q] = [of |-> d.place, piece |-> q]

\* Its descriptors are its own, and if nothing has failed they are complete.
OwnDescriptors(d) == /\ d.descriptor = d.place
                     /\ OwnPieces(d)
                     /\ ~failed => d.whole

DescriptorsInv ==
  \A k \in DOMAIN usbDevices :
    Undisturbed(usbDevices[k].place) /\ ~Pending(k) => OwnDescriptors(usbDevices[k])

\* As long as nothing has failed no device has been missed.
CompleteInv ==
  pc # "undefined" /\ ~failed =>
    \A p \in Places : Behind(p) /\ plugged[p] # NoDevice /\ Undisturbed(p) =>
      \E k \in DOMAIN usbDevices : usbDevices[k].place = p

Units(kind) == IF kind.units > 0 THEN kind.units ELSE 1

\* The disks among the devices looked at are set up, once each.
DisksInv ==
  /\ IsSeq(disks)
  /\ pc \notin {"storage", "done"} => disks = <<>>
  /\ \A k \in DOMAIN disks : /\ pc = "storage" => disks[k].device < i
                             /\ IsDisk(usbDevices[disks[k].device])
                             /\ ~failed /\ Undisturbed(usbDevices[disks[k].device].place) =>
                                  disks[k].units = Units(plugged[usbDevices[disks[k].device].place])
  /\ \A k, l \in DOMAIN disks : disks[k].device = disks[l].device => k = l
  /\ booting /\ pc \in {"storage", "done"} =>
       \A d \in DOMAIN usbDevices : (pc = "storage" => d < i) /\ IsDisk(usbDevices[d]) =>
         \E k \in DOMAIN disks : disks[k].device = d

BusInv == /\ TypeOK /\ ScanInv /\ RoutedInv /\ DevicesInv /\ PortsInv
          /\ RegisteredInv /\ DescriptorsInv /\ CompleteInv /\ DisksInv

-----------------------------------------------------------------------------
(* Places and sequences *)

LEMMA PlaceFacts ==
  ASSUME NEW p \in Places
  PROVE  /\ p = <<p[1], p[2]>> /\ p[1] \in 1..Len(Bus) /\ p[1] \in Int /\ Bus[p[1]] = "uhci"
         /\ p[2] \in {0, 1}
BY DEF Places

LEMMA MakePlace ==
  ASSUME NEW f \in 1..Len(Bus), Bus[f] = "uhci", NEW n \in {0, 1}
  PROVE  <<f, n>> \in Places /\ <<f, n>>[1] = f /\ <<f, n>>[2] = n
BY DEF Places

LEMMA BusFacts ==
  /\ Len(Bus) \in Nat
  /\ \A f \in 1..Len(Bus) : Bus[f] \in Functions
  /\ \E f \in 1..Len(Bus) : Bus[f] # "absent"
  /\ MAX_USB \in Nat
BY BusAssumption

LEMMA SeqFacts ==
  ASSUME NEW s, IsSeq(s)
  PROVE  Len(s) \in Nat /\ DOMAIN s = 1..Len(s)
BY DEF IsSeq

LEMMA MakeSeq ==
  ASSUME NEW S, NEW s \in Seq(S)
  PROVE  IsSeq(s)
<1>1. DOMAIN s = 1..Len(s)
  OBVIOUS
<1> QED
  BY <1>1 DEF IsSeq

LEMMA EmptyTable == IsSeq(<<>>) /\ Len(<<>>) = 0 /\ DOMAIN <<>> = {}
<1>1. Len(<<>>) = 0 /\ DOMAIN <<>> = {}
  OBVIOUS
<1>2. <<>> \in Seq({<<>>[k] : k \in DOMAIN <<>>})
  <2> DEFINE S == {<<>>[k] : k \in DOMAIN <<>>}
  <2> HIDE DEF S
  <2>1. <<>> \in Seq(S)
    OBVIOUS
  <2> QED
    BY <2>1 DEF S
<1> QED
  BY <1>1, <1>2 DEF IsSeq

LEMMA Appended ==
  ASSUME NEW s, IsSeq(s), NEW e
  PROVE  LET t == Append(s, e)
         IN /\ IsSeq(t) /\ Len(t) = Len(s) + 1 /\ DOMAIN t = 1..Len(s)+1
            /\ \A k \in DOMAIN s : k # Len(s) + 1 /\ t[k] = s[k]
            /\ t[Len(s) + 1] = e
<1> DEFINE S == {s[k] : k \in DOMAIN s}
           T == S \cup {e}
           t == Append(s, e)
<1>1. s \in Seq(T)
  BY SeqFacts DEF IsSeq
<1> HIDE DEF S, T
<1>2. e \in T
  BY DEF T
<1>3. /\ t \in Seq(T) /\ Len(t) = Len(s) + 1 /\ Len(s) \in Nat
      /\ \A k \in 1..Len(s) : t[k] = s[k]
      /\ t[Len(s) + 1] = e
  BY <1>1, <1>2
<1>4. DOMAIN t = 1..Len(s)+1 /\ DOMAIN s = 1..Len(s)
  BY <1>1, <1>3
<1> HIDE DEF t
<1>5. IsSeq(t)
  BY <1>3, <1>4 DEF IsSeq
<1>6. \A k \in DOMAIN s : k # Len(s) + 1
  BY <1>3, <1>4
<1> QED
  BY <1>3, <1>4, <1>5, <1>6 DEF t

\* The place under enumeration, and its neighbour.
LEMMA HereFacts ==
  ASSUME TypeOK, ScanInv, pc \in Enumerating
  PROVE  /\ Here \in Places /\ Here[1] = pciDevices[i] /\ Here[2] = port /\ port \in {0, 1}
         /\ Other \in Places /\ Other[1] = pciDevices[i] /\ Other[2] = 1 - port /\ Other # Here
         /\ \A p \in Places : p[1] = pciDevices[i] => p = Here \/ p = Other
         /\ ~Behind(Here)
         /\ port = 0 => ~Behind(Other)
         /\ port = 1 => Behind(Other)
<1>1. i \in DOMAIN pciDevices /\ Bus[pciDevices[i]] = "uhci" /\ port \in {0, 1}
  BY DEF ScanInv, TypeOK
<1>2. pciDevices[i] \in 1..Len(Bus)
  BY <1>1 DEF ScanInv
<1>3. 1 - port \in {0, 1} /\ 1 - port # port
  BY <1>1
<1>4. Here \in Places /\ Here[1] = pciDevices[i] /\ Here[2] = port
  BY <1>1, <1>2, MakePlace DEF Here
<1>5. Other \in Places /\ Other[1] = pciDevices[i] /\ Other[2] = 1 - port
  BY <1>1, <1>2, <1>3, MakePlace DEF Other
<1>6. ASSUME NEW p \in Places, p[1] = pciDevices[i] PROVE p = Here \/ p = Other
  <2>1. p = <<p[1], p[2]>> /\ p[2] \in {0, 1}
    BY PlaceFacts
  <2>2. p[2] = port \/ p[2] = 1 - port
    BY <1>1, <2>1
  <2> QED
    BY <1>6, <2>1, <2>2 DEF Here, Other
<1>7. Other # Here
  BY <1>3, <1>4, <1>5
<1>8. ~(pciDevices[i] < pciDevices[i]) /\ ~(port < port)
  BY <1>1, <1>2
<1>9. pc \notin {"scan", "ehci", "uhci"}
  BY DEF Enumerating
<1>10. ~Behind(Here)
  BY <1>4, <1>8 DEF Behind
<1>11. port = 0 => ~Behind(Other)
  <2>1. port = 0 => ~(1 - port < port)
    BY <1>1
  <2> QED
    BY <1>5, <1>8, <2>1 DEF Behind
<1>12. port = 1 => Behind(Other)
  <2>1. port = 1 => 1 - port < port
    BY <1>1
  <2> QED
    BY <1>5, <1>9, <2>1 DEF Behind
<1> QED
  BY <1>1, <1>4, <1>5, <1>6, <1>7, <1>10, <1>11, <1>12

\* Only the other port of the controller can have been left.
LEMMA LeftHere ==
  ASSUME TypeOK, ScanInv, DevicesInv, pc \in Enumerating
  PROVE  /\ Here \notin left
         /\ Undisturbed(Here) <=> Other \notin left
         /\ port = 0 => Other \notin left
<1>1. /\ Here \in Places /\ Here[1] = pciDevices[i] /\ Here[2] = port /\ port \in {0, 1}
      /\ Other \in Places /\ Other[1] = pciDevices[i] /\ Other[2] = 1 - port
      /\ \A p \in Places : p[1] = pciDevices[i] => p = Here \/ p = Other
      /\ ~Behind(Here)
      /\ port = 0 => ~Behind(Other)
  BY HereFacts
<1>2. left \subseteq Places /\ \A q \in left : Behind(q)
  BY DEF TypeOK, DevicesInv
<1>3. Here \notin left /\ (port = 0 => Other \notin left)
  BY <1>1, <1>2
<1>4. ASSUME Other \notin left PROVE Undisturbed(Here)
  BY <1>1, <1>2, <1>3, <1>4 DEF Undisturbed
<1>5. ASSUME Other \in left, Undisturbed(Here) PROVE FALSE
  <2>1. port = 1
    BY <1>1, <1>3, <1>5
  <2>2. ~(1 - port > port)
    BY <2>1
  <2> QED
    BY <1>1, <1>5, <2>2 DEF Undisturbed
<1> QED
  BY <1>3, <1>4, <1>5

\* At address 0 only the device at the port under enumeration answers, where
\* the other one was not left there.
LEMMA AloneAtZero ==
  ASSUME TypeOK, ScanInv, DevicesInv, PortsInv, pc \in {"port", "describe", "check"},
         Undisturbed(Here)
  PROVE  ~(enabled[Other] /\ address[Other] = 0)
<1>1. pc \in Enumerating /\ pc # "configuration" /\ port \in {0, 1}
  BY DEF Enumerating, TypeOK
<1>2. Other \notin left
  BY <1>1, LeftHere
<1>3. ASSUME Found(Other) PROVE address[Other] # 0
  <2>1. PICK k \in DOMAIN usbDevices : usbDevices[k].address = address[Other]
    BY <1>3 DEF Found
  <2>2. usbDevices[k].address \in 1..126
    BY DEF TypeOK
  <2>3. 0 \notin 1..126
    OBVIOUS
  <2> QED
    BY <2>1, <2>2, <2>3, Zenon
<1> QED
  BY <1>1, <1>2, <1>3 DEF PortsInv

-----------------------------------------------------------------------------
(* The order in which the ports have their turns *)

\* Every controller is among the functions found.
LEMMA PlaceFound ==
  ASSUME ScanInv, pc # "scan", NEW p \in Places
  PROVE  \E a \in DOMAIN pciDevices : pciDevices[a] = p[1]
BY PlaceFacts DEF ScanInv

LEMMA UpTo ==
  ASSUME NEW n \in Nat
  PROVE  IsFiniteSet(1..n) /\ Cardinality(1..n) = n
<1>1. IsFiniteSet(1..n) /\ Cardinality(1..n) = IF 1 > n THEN 0 ELSE n - 1 + 1
  BY FS_Interval
<1> QED
  BY <1>1

LEMMA LastOrNot ==
  ASSUME NEW n \in Nat, NEW k \in 1..n
  PROVE  k < n \/ k = n
OBVIOUS

\* There are no more functions found than functions.
LEMMA FoundBound ==
  ASSUME ScanInv
  PROVE  Len(pciDevices) \in Nat /\ DOMAIN pciDevices = 1..Len(pciDevices)
         /\ Len(pciDevices) <= Len(Bus)
<1>1. /\ pciDevices \in Seq(1..Len(Bus)) /\ Len(pciDevices) \in Nat
      /\ DOMAIN pciDevices = 1..Len(pciDevices)
  BY DEF ScanInv
<1>2. pciDevices \in [1..Len(pciDevices) -> 1..Len(Bus)]
  BY <1>1
<1>3. ASSUME NEW a \in 1..Len(pciDevices), NEW b \in 1..Len(pciDevices),
             pciDevices[a] = pciDevices[b]
      PROVE  a = b
  <2>1. pciDevices[a] \in Int /\ pciDevices[b] \in Int
    BY <1>2
  <2>2. ~(a < b) /\ ~(b < a)
    <3>1. \A c, d \in DOMAIN pciDevices : c < d => pciDevices[c] < pciDevices[d]
      BY DEF ScanInv
    <3>2. a \in DOMAIN pciDevices /\ b \in DOMAIN pciDevices
      BY <1>1
    <3>3. \A k \in Int : ~(k < k)
      OBVIOUS
    <3> QED
      BY <1>3, <2>1, <3>1, <3>2, <3>3, Zenon
  <2> QED
    BY <1>1, <2>2
<1>4. pciDevices \in Injection(1..Len(pciDevices), 1..Len(Bus))
  BY <1>2, <1>3 DEF Injection, IsInjective
<1>5. Len(Bus) \in Nat
  BY BusFacts
<1>6. /\ IsFiniteSet(1..Len(Bus)) /\ Cardinality(1..Len(Bus)) = Len(Bus)
      /\ Cardinality(1..Len(pciDevices)) = Len(pciDevices)
  BY <1>1, <1>5, UpTo
<1>7. Cardinality(1..Len(pciDevices)) <= Cardinality(1..Len(Bus))
  BY <1>4, <1>6, FS_Injection
<1> QED
  BY <1>1, <1>6, <1>7

\* After a controller its ports have had their turns, and no other.
LEMMA ControllerMoves ==
  ASSUME TypeOK, ScanInv, RoutedInv, pc \in {"uhci"} \cup Enumerating, NextController,
         UNCHANGED bus
  PROVE  /\ pc' \in {"uhci", "storage", "done"} /\ ScanInv' /\ RoutedInv'
         /\ i' \in 1..Len(Bus)+1
         /\ pc' = "storage" => i' = 1 /\ usbDevices # <<>>
         /\ pc' = "done" /\ booting => usbDevices = <<>>
         /\ \A p \in Places : Behind(p)' <=> p[1] <= pciDevices[i]
<1>1. /\ Len(pciDevices) \in Nat /\ DOMAIN pciDevices = 1..Len(pciDevices)
      /\ Len(pciDevices) <= Len(Bus) /\ Len(Bus) \in Nat
  BY FoundBound, BusFacts
<1>2. i \in 1..Len(pciDevices) /\ pc \notin {"scan", "ehci", "storage", "done"}
  BY <1>1 DEF ScanInv, Enumerating
<1>3. pciDevices' = pciDevices /\ routed' = routed /\ ~routed
  BY <1>2 DEF bus, RoutedInv
<1>4. \/ i < Len(pciDevices) /\ i' = i + 1 /\ pc' = "uhci"
      \/ i = Len(pciDevices) /\ i' = 1 /\ pc' = "done" /\ (booting => usbDevices = <<>>)
      \/ i = Len(pciDevices) /\ i' = 1 /\ pc' = "storage" /\ usbDevices # <<>>
  <2>1. i < Len(pciDevices) \/ i = Len(pciDevices)
    BY <1>1, <1>2, LastOrNot
  <2>2. i < Len(pciDevices) => i' = i + 1 /\ pc' = "uhci"
    BY DEF NextController, Step
  <2>3. i = Len(pciDevices) => ~(i < Len(pciDevices))
    BY <1>1
  <2>4. ~(i < Len(pciDevices)) =>
          i' = 1 /\ pc' = IF booting /\ usbDevices # <<>> THEN "storage" ELSE "done"
    BY DEF NextController, Step
  <2> QED
    BY <2>1, <2>2, <2>3, <2>4
<1>5. i' \in 1..Len(pciDevices) /\ pc' \in {"uhci", "storage", "done"}
  <2>1. i < Len(pciDevices) => i + 1 \in 1..Len(pciDevices)
    BY <1>1, <1>2
  <2>2. 1 \in 1..Len(pciDevices)
    BY <1>1, <1>2
  <2> QED
    BY <1>4, <2>1, <2>2
<1>6. ScanInv'
  BY <1>1, <1>2, <1>3, <1>5 DEF ScanInv, Enumerating
<1>7. RoutedInv'
  BY <1>3, <1>5 DEF RoutedInv
<1>8. ASSUME NEW p \in Places PROVE Behind(p)' <=> p[1] <= pciDevices[i]
  <2>1. PICK a \in 1..Len(pciDevices) : pciDevices[a] = p[1]
    BY <1>1, <1>2, PlaceFound
  <2>2. p[1] \in Int /\ \A b \in 1..Len(pciDevices) : pciDevices[b] \in Int
    BY PlaceFacts DEF ScanInv
  <2>3. \A b, c \in 1..Len(pciDevices) : b < c => pciDevices[b] < pciDevices[c]
    BY <1>1 DEF ScanInv
  <2>4. p[1] <= pciDevices[i] <=> a <= i
    <3>1. a < i => pciDevices[a] < pciDevices[i]
      BY <1>2, <2>3
    <3>2. i < a => pciDevices[i] < pciDevices[a]
      BY <1>2, <2>3
    <3> QED
      BY <1>1, <1>2, <2>1, <2>2, <3>1, <3>2
  <2>5. CASE pc' = "uhci"
    <3>1. i' = i + 1 /\ i + 1 \in 1..Len(pciDevices)
      BY <1>1, <1>2, <1>4, <2>5
    <3>2. p[1] < pciDevices[i + 1] <=> a < i + 1
      <4>1. a < i + 1 => pciDevices[a] < pciDevices[i + 1]
        BY <2>3, <3>1
      <4>2. i + 1 < a => pciDevices[i + 1] < pciDevices[a]
        BY <2>3, <3>1
      <4> QED
        BY <1>1, <1>2, <2>1, <2>2, <3>1, <4>1, <4>2
    <3>3. Behind(p)' <=> p[1] < pciDevices[i + 1]
      BY <1>3, <2>5, <3>1 DEF Behind, Enumerating
    <3> QED
      BY <1>2, <2>4, <3>2, <3>3
  <2>6. CASE pc' # "uhci"
    <3>1. i = Len(pciDevices) /\ pc' \in {"storage", "done"}
      BY <1>4, <2>6
    <3>2. Behind(p)'
      BY <3>1 DEF Behind, Enumerating
    <3> QED
      BY <1>1, <2>1, <2>4, <3>1, <3>2
  <2> QED
    BY <2>5, <2>6
<1> QED
  BY <1>1, <1>4, <1>5, <1>6, <1>7, <1>8

\* After a port it has had its turn, and it is the other one of the
\* controller if there is another.
LEMMA PortMoves ==
  ASSUME TypeOK, ScanInv, RoutedInv, pc \in Enumerating, NextPort, UNCHANGED bus
  PROVE  /\ pc' \in {"port", "uhci", "storage", "done"} /\ ScanInv' /\ RoutedInv'
         /\ i' \in 1..Len(Bus)+1 /\ port' \in {0, 1}
         /\ pc' = "storage" => i' = 1 /\ usbDevices # <<>>
         /\ pc' = "done" /\ booting => usbDevices = <<>>
         /\ pc' = "port" => port = 0 /\ port' = 1 /\ Here' = Other /\ Other' = Here
         /\ \A p \in Places : Behind(p)' <=> Behind(p) \/ p = Here
<1>1. /\ Here[1] = pciDevices[i] /\ Here[2] = port /\ port \in {0, 1}
      /\ Other[1] = pciDevices[i] /\ Other[2] = 1 - port
      /\ \A p \in Places : p[1] = pciDevices[i] => p = Here \/ p = Other
      /\ port = 1 => Behind(Other)
  BY HereFacts
<1>2. /\ pc \notin {"scan", "ehci", "uhci", "storage", "done"} /\ i \in DOMAIN pciDevices
      /\ pciDevices' = pciDevices /\ routed' = routed /\ ~routed
      /\ Bus[pciDevices[i]] = "uhci"
  BY DEF Enumerating, ScanInv, RoutedInv, bus
<1>3. ASSUME NEW p \in Places
      PROVE  Behind(p) <=> p[1] < pciDevices[i] \/ (p[1] = pciDevices[i] /\ p[2] < port)
  BY <1>2 DEF Behind
<1>4. pciDevices[i] \in Int /\ \A p \in Places : p[1] \in Int /\ p[2] \in {0, 1}
  BY <1>2, PlaceFacts DEF ScanInv
<1>5. CASE port = 0
  <2>1. port' = 1 /\ pc' = "port" /\ i' = i
    BY <1>5 DEF NextPort
  <2>2. ScanInv' /\ RoutedInv' /\ i' \in 1..Len(Bus)+1
    <3>1. i' \in 1..Len(Bus)+1
      BY <1>2, <2>1 DEF TypeOK
    <3>2. RoutedInv'
      BY <1>2, <2>1 DEF RoutedInv
    <3>3. ScanInv'
      BY <1>2, <2>1 DEF ScanInv, Enumerating
    <3> QED
      BY <3>1, <3>2, <3>3
  <2>3. Here' = Other /\ Other' = Here
    <3>1. 1 - port = 1 /\ 1 - 1 = 0
      BY <1>5
    <3> QED
      BY <1>2, <1>5, <2>1, <3>1 DEF Here, Other
  <2>4. ASSUME NEW p \in Places PROVE Behind(p)' <=> Behind(p) \/ p = Here
    <3>1. Behind(p)' <=> p[1] < pciDevices[i] \/ (p[1] = pciDevices[i] /\ p[2] < 1)
      BY <1>2, <2>1 DEF Behind, Enumerating
    <3>2. Behind(p) <=> p[1] < pciDevices[i]
      BY <1>3, <1>4, <1>5
    <3>3. p = Here <=> p[1] = pciDevices[i] /\ p[2] < 1
      <4>1. p = <<p[1], p[2]>> /\ p[2] \in {0, 1}
        BY PlaceFacts
      <4>2. p[2] < 1 <=> p[2] = 0
        BY <4>1
      <4> QED
        BY <1>1, <1>5, <4>1, <4>2 DEF Here
    <3> QED
      BY <3>1, <3>2, <3>3
  <2> QED
    BY <1>5, <2>1, <2>2, <2>3, <2>4
<1>6. CASE port = 1
  <2>1. NextController /\ port' = port
    BY <1>6 DEF NextPort
  <2>2. /\ pc' \in {"uhci", "storage", "done"} /\ ScanInv' /\ RoutedInv'
        /\ i' \in 1..Len(Bus)+1
        /\ pc' = "storage" => i' = 1 /\ usbDevices # <<>>
        /\ pc' = "done" /\ booting => usbDevices = <<>>
        /\ \A p \in Places : Behind(p)' <=> p[1] <= pciDevices[i]
    BY <2>1, ControllerMoves
  <2>3. ASSUME NEW p \in Places PROVE Behind(p)' <=> Behind(p) \/ p = Here
    <3>1. p[1] = pciDevices[i] => Behind(p) \/ p = Here
      BY <1>1, <1>6
    <3>2. Behind(p) => p[1] <= pciDevices[i]
      BY <1>3, <1>4
    <3>3. p = Here => p[1] = pciDevices[i]
      BY <1>1
    <3>4. p[1] < pciDevices[i] => Behind(p)
      BY <1>3
    <3> QED
      BY <1>4, <2>2, <3>1, <3>2, <3>3, <3>4
  <2> QED
    BY <1>1, <2>1, <2>2, <2>3
<1> QED
  BY <1>1, <1>5, <1>6

\* What the end of a port's turn leaves.
LEMMA LeftMoves ==
  ASSUME TypeOK, ScanInv, RoutedInv, DevicesInv, pc \in Enumerating, NextPort, UNCHANGED bus
  PROVE  /\ left' \subseteq Places
         /\ enabled'[Here] /\ Here \notin left' =>
              \E k \in DOMAIN usbDevices' : /\ usbDevices'[k].place = Here
                                            /\ usbDevices'[k].address = address'[Here]
         /\ \A q \in left' : Behind(q)'
         /\ \A p \in Places : Undisturbed(p)' => Undisturbed(p) /\ p \notin left'
<1>1. Here \in Places
  BY HereFacts
<1>2. left' = IF enabled'[Here] /\ ~\E k \in DOMAIN usbDevices' :
                                     /\ usbDevices'[k].place = Here
                                     /\ usbDevices'[k].address = address'[Here]
              THEN left \cup {Here} ELSE left
  BY DEF NextPort
<1>3. left \subseteq Places /\ \A q \in left : Behind(q)
  BY DEF TypeOK, DevicesInv
<1>4. \A p \in Places : Behind(p)' <=> Behind(p) \/ p = Here
  BY PortMoves
<1>5. left \subseteq left' /\ left' \subseteq left \cup {Here}
  BY <1>2
<1>6. ASSUME NEW p \in Places, Undisturbed(p)' PROVE Undisturbed(p) /\ p \notin left'
  <2>1. \A q \in left' : q[1] = p[1] => q[2] > p[2]
    BY <1>6 DEF Undisturbed
  <2>2. ~(p[2] > p[2])
    BY PlaceFacts
  <2> QED
    BY <1>5, <2>1, <2>2 DEF Undisturbed
<1> QED
  BY <1>1, <1>2, <1>3, <1>4, <1>5, <1>6

-----------------------------------------------------------------------------
(* Steps that register nothing *)

\* The table stays as it is while places have their turns.
LEMMA TableKept ==
  ASSUME DevicesInv, UNCHANGED usbDevices, pc # "configuration",
         pc' \notin {"configuration", "scan", "ehci"},
         \A p \in Places : Behind(p) => Behind(p)',
         \A q \in left' : Behind(q)',
         pc' = "storage" => i' \in DOMAIN usbDevices,
         \A k \in DOMAIN usbDevices : usbDevices[k].place \in Places
  PROVE  DevicesInv'
<1>1. /\ IsSeq(usbDevices)
      /\ \A k \in DOMAIN usbDevices : IsDevice(usbDevices[k])
      /\ \A k, l \in DOMAIN usbDevices : usbDevices[k].place = usbDevices[l].place => k = l
  BY DEF DevicesInv
<1>2. IsSeq(usbDevices)' /\ \A k \in DOMAIN usbDevices' : IsDevice(usbDevices'[k])
  BY <1>1
<1>3. ASSUME NEW k \in DOMAIN usbDevices' PROVE Behind(usbDevices[k].place)'
  <2>1. Behind(usbDevices[k].place)
    BY <1>3 DEF DevicesInv, Pending
  <2>2. usbDevices[k].place \in Places
    BY <1>3
  <2>3. \A p : p = usbDevices[k].place /\ Behind(p)' => Behind(usbDevices[k].place)'
    BY DEF Behind
  <2> QED
    BY <2>1, <2>2, <2>3
<1> QED
  BY <1>1, <1>2, <1>3 DEF DevicesInv

\* Registered devices answer as before if nothing at their controllers has
\* changed but at a port that is not theirs and has no answer.
LEMMA RegisteredKept ==
  ASSUME RegisteredInv, UNCHANGED usbDevices,
         pc \notin {"undefined", "configuration"},
         \A p \in Places : Undisturbed(p)' => Undisturbed(p),
         \A k \in DOMAIN usbDevices : usbDevices[k].place \in Places,
         \A k \in DOMAIN usbDevices : Undisturbed(usbDevices[k].place) =>
           \A q \in Places : Answers(q, k)' <=> Answers(q, k)
  PROVE  RegisteredInv'
<1>1. ASSUME NEW k \in DOMAIN usbDevices', Undisturbed(usbDevices[k].place)', NEW q \in Places
      PROVE  Answers(q, k)' <=> q = usbDevices[k].place
  <2>1. Undisturbed(usbDevices[k].place)
    <3>1. usbDevices[k].place \in Places
      BY <1>1
    <3>2. \A p : p = usbDevices[k].place /\ Undisturbed(usbDevices[k].place)' => Undisturbed(p)'
      BY DEF Undisturbed
    <3> QED
      BY <1>1, <3>1, <3>2
  <2>2. Answers(q, k) <=> q = usbDevices[k].place
    BY <1>1, <2>1 DEF RegisteredInv, Pending
  <2> QED
    BY <1>1, <2>1, <2>2
<1> QED
  BY <1>1 DEF RegisteredInv

\* What is kept of the descriptors of a device does not change.
LEMMA DescriptorsKept ==
  ASSUME DescriptorsInv, UNCHANGED <<usbDevices, plugged>>, pc # "configuration",
         failed' \in {failed, TRUE},
         \A p \in Places : Undisturbed(p)' => Undisturbed(p),
         \A k \in DOMAIN usbDevices : usbDevices[k].place \in Places
  PROVE  DescriptorsInv'
<1>1. ASSUME NEW k \in DOMAIN usbDevices', Undisturbed(usbDevices[k].place)'
      PROVE  OwnDescriptors(usbDevices[k])'
  <2>1. Undisturbed(usbDevices[k].place)
    <3>1. usbDevices[k].place \in Places
      BY <1>1
    <3>2. \A p : p = usbDevices[k].place /\ Undisturbed(usbDevices[k].place)' => Undisturbed(p)'
      BY DEF Undisturbed
    <3> QED
      BY <1>1, <3>1, <3>2
  <2>2. OwnDescriptors(usbDevices[k])
    BY <1>1, <2>1 DEF DescriptorsInv, Pending
  <2>3. usbDevices' = usbDevices /\ plugged' = plugged /\ (~failed' => ~failed)
    <3>1. failed' = failed \/ failed' = TRUE
      OBVIOUS
    <3>2. ~failed' => ~failed
      BY <3>1
    <3> QED
      BY <3>2
  <2>4. OwnPieces(usbDevices[k])'
    BY <2>2, <2>3 DEF OwnDescriptors, OwnPieces
  <2> QED
    BY <2>2, <2>3, <2>4 DEF OwnDescriptors
<1> QED
  BY <1>1 DEF DescriptorsInv

\* The disks stay as they are as long as the search for them has not begun.
LEMMA DisksKept ==
  ASSUME DisksInv, UNCHANGED <<disks, usbDevices, booting>>, pc \notin {"storage", "done"},
         pc' = "storage" => i' = 1, pc' = "done" /\ booting => usbDevices = <<>>,
         IsSeq(usbDevices)
  PROVE  DisksInv'
<1>1. disks = <<>> /\ disks' = <<>>
  BY DEF DisksInv
<1>2. IsSeq(disks)' /\ DOMAIN disks' = {}
  BY <1>1, EmptyTable
<1>3. DOMAIN usbDevices = 1..Len(usbDevices) /\ Len(usbDevices) \in Nat
  BY SeqFacts
<1>4. pc' = "done" /\ booting => DOMAIN usbDevices = {}
  BY EmptyTable
<1>5. pc' = "storage" => \A d \in DOMAIN usbDevices : ~(d < i')
  BY <1>3
<1> QED
  BY <1>1, <1>2, <1>4, <1>5 DEF DisksInv

\* The other port has its turn after this one.
LEMMA PortsAfter ==
  ASSUME TypeOK, ScanInv, RoutedInv, DevicesInv, PortsInv, pc \in Enumerating, NextPort,
         UNCHANGED bus,
         port = 0 => enabled'[Other] = enabled[Other] /\ address'[Other] = address[Other]
  PROVE  PortsInv'
<1>1. pc' \in {"port", "uhci", "storage", "done"}
  BY PortMoves
<1>2. CASE pc' # "port"
  BY <1>1, <1>2 DEF PortsInv, Enumerating
<1>3. CASE pc' = "port"
  <2>1. port = 0 /\ port' = 1 /\ Here' = Other /\ Other' = Here
    BY <1>3, PortMoves
  <2>2. address[Other] = 0
    BY <2>1 DEF PortsInv
  <2>3. address'[Here'] = 0
    BY <2>1, <2>2
  <2>4. enabled'[Other'] /\ Other' \notin left' =>
          \E k \in DOMAIN usbDevices' : /\ usbDevices'[k].place = Other'
                                        /\ usbDevices'[k].address = address'[Other']
    BY <2>1, LeftMoves
  <2>5. enabled'[Other'] => Other' \in left' \/ Found(Other)'
    BY <2>4 DEF Found
  <2> QED
    BY <1>3, <2>1, <2>3, <2>5 DEF PortsInv
<1> QED
  BY <1>2, <1>3

\* A port that is passed over.  Nothing comes to answer where a device is
\* registered; if a device was left before, both ports of the controller may
\* be at any address.
LEMMA SkipPort ==
  ASSUME BusInv, pc \in {"port", "describe", "check"}, NextPort,
         UNCHANGED <<bus, described, usbDevices, disks>>,
         enabled' \in [Places -> BOOLEAN], address' \in [Places -> 0..126],
         \A p \in Places : p[1] # pciDevices[i] =>
           enabled'[p] = enabled[p] /\ address'[p] = address[p],
         Undisturbed(Here) => enabled'[Other] = enabled[Other] /\ address'[Other] = address[Other],
         \A k \in DOMAIN usbDevices : usbDevices[k].place[1] = pciDevices[i] =>
           usbDevices[k].address # address'[Here],
         failed' \in {failed, TRUE},
         ~failed' => plugged[Here] = NoDevice \/ enabled'[Here]
  PROVE  BusInv'
<1>1. /\ TypeOK /\ ScanInv /\ RoutedInv /\ DevicesInv /\ PortsInv /\ RegisteredInv
      /\ DescriptorsInv /\ CompleteInv /\ DisksInv
  BY DEF BusInv
<1>2. pc \in Enumerating /\ pc # "configuration" /\ pc # "undefined"
      /\ pc \notin {"storage", "done"}
  BY DEF Enumerating
<1>3. /\ pc' \in {"port", "uhci", "storage", "done"} /\ ScanInv' /\ RoutedInv'
      /\ i' \in 1..Len(Bus)+1 /\ port' \in {0, 1}
      /\ pc' = "storage" => i' = 1 /\ usbDevices # <<>>
      /\ pc' = "done" /\ booting => usbDevices = <<>>
      /\ \A p \in Places : Behind(p)' <=> Behind(p) \/ p = Here
  BY <1>1, <1>2, PortMoves
<1>4. /\ Here \in Places /\ Other \in Places /\ Other # Here /\ ~Behind(Here)
      /\ Here[1] = pciDevices[i] /\ Other[1] = pciDevices[i] /\ port \in {0, 1}
      /\ \A p \in Places : p[1] = pciDevices[i] => p = Here \/ p = Other
  BY <1>1, <1>2, HereFacts
<1>5. /\ left' \subseteq Places
      /\ enabled'[Here] /\ Here \notin left' =>
           \E k \in DOMAIN usbDevices' : /\ usbDevices'[k].place = Here
                                         /\ usbDevices'[k].address = address'[Here]
      /\ \A q \in left' : Behind(q)'
      /\ \A p \in Places : Undisturbed(p)' => Undisturbed(p) /\ p \notin left'
  BY <1>1, <1>2, LeftMoves
<1>6. /\ usbDevices' = usbDevices /\ plugged' = plugged /\ routed' = routed /\ disks' = disks
      /\ described' = described /\ pciDevices' = pciDevices
      /\ booting' = booting /\ earlier' = earlier
  BY DEF bus
<1>7. /\ \A k \in DOMAIN usbDevices : usbDevices[k].place \in Places /\ usbDevices[k].address \in 1..126
      /\ IsSeq(usbDevices)
  BY <1>1 DEF TypeOK, DevicesInv
<1>8. Len(usbDevices) \in Nat /\ DOMAIN usbDevices = 1..Len(usbDevices)
      /\ (usbDevices # <<>> => Len(usbDevices) > 0)
  <2>1. Len(usbDevices) \in Nat /\ DOMAIN usbDevices = 1..Len(usbDevices)
    BY <1>7, SeqFacts
  <2>2. usbDevices # <<>> => Len(usbDevices) > 0
    BY <1>7 DEF IsSeq
  <2> QED
    BY <2>1, <2>2
<1>9. TypeOK'
  BY <1>1, <1>3, <1>5, <1>6, ZenonT(60) DEF TypeOK
<1>10. DevicesInv'
  <2>1. pc' = "storage" => i' \in DOMAIN usbDevices
    BY <1>3, <1>8
  <2>2. pc' \notin {"configuration", "scan", "ehci"}
    BY <1>3
  <2>3. \A p \in Places : Behind(p) => Behind(p)'
    BY <1>3
  <2> QED
    BY <1>1, <1>2, <1>5, <1>6, <1>7, <2>1, <2>2, <2>3, TableKept
<1>11. PortsInv'
  <2>1. port = 0 => enabled'[Other] = enabled[Other] /\ address'[Other] = address[Other]
    BY <1>1, <1>2, LeftHere
  <2> QED
    BY <1>1, <1>2, <2>1, PortsAfter
<1>12. RegisteredInv'
  <2>1. ASSUME NEW k \in DOMAIN usbDevices, Undisturbed(usbDevices[k].place), NEW q \in Places
        PROVE  Answers(q, k)' <=> Answers(q, k)
    <3>1. CASE q[1] # pciDevices[i]
      BY <1>6, <3>1 DEF Answers, Connected
    <3>2. CASE q[1] = pciDevices[i] /\ usbDevices[k].place[1] # pciDevices[i]
      BY <1>6, <3>2 DEF Answers
    <3>3. CASE q[1] = pciDevices[i] /\ usbDevices[k].place[1] = pciDevices[i]
      <4>1. usbDevices[k].place = Other /\ ~Pending(k) /\ Undisturbed(Here)
        <5>1. Behind(usbDevices[k].place) /\ ~Pending(k)
          BY <1>1, <1>2 DEF DevicesInv, Pending
        <5>2. usbDevices[k].place = Other
          BY <1>4, <1>7, <3>3, <5>1
        <5>3. Other \notin left
          <6>1. ~(Other[2] > Other[2])
            BY <1>4, PlaceFacts
          <6> QED
            BY <2>1, <5>2, <6>1 DEF Undisturbed
        <5> QED
          BY <1>1, <1>2, <5>1, <5>2, <5>3, LeftHere
      <4>2. CASE q = Other
        BY <1>6, <4>1, <4>2 DEF Answers, Connected
      <4>3. CASE q = Here
        <5>1. ~Answers(q, k)'
          BY <1>6, <3>3, <4>3 DEF Answers
        <5>2. ~Answers(q, k)
          BY <1>1, <1>2, <1>4, <2>1, <4>1, <4>3 DEF RegisteredInv
        <5> QED
          BY <5>1, <5>2
      <4> QED
        BY <1>4, <3>3, <4>2, <4>3
    <3> QED
      BY <3>1, <3>2, <3>3
  <2>2. \A p \in Places : Undisturbed(p)' => Undisturbed(p)
    BY <1>5
  <2> QED
    BY <1>1, <1>2, <1>6, <1>7, <2>1, <2>2, RegisteredKept
<1>13. DescriptorsInv'
  BY <1>1, <1>2, <1>5, <1>6, <1>7, DescriptorsKept
<1>14. CompleteInv'
  <2>1. ASSUME ~failed', NEW p \in Places, Behind(p)', plugged'[p] # NoDevice, Undisturbed(p)'
        PROVE  \E k \in DOMAIN usbDevices' : usbDevices'[k].place = p
    <3>1. ~failed
      BY <2>1
    <3>2. Undisturbed(p) /\ p \notin left'
      BY <1>5, <2>1
    <3>3. CASE p = Here
      <4>1. plugged[Here] # NoDevice
        BY <1>6, <2>1, <3>3
      <4>2. enabled'[Here] /\ Here \notin left'
        BY <2>1, <3>2, <3>3, <4>1
      <4> QED
        BY <1>5, <3>3, <4>2
    <3>4. CASE p # Here
      <4>1. Behind(p)
        BY <1>3, <2>1, <3>4
      <4> QED
        BY <1>1, <1>2, <1>6, <2>1, <3>1, <3>2, <4>1 DEF CompleteInv
    <3> QED
      BY <3>3, <3>4
  <2> QED
    BY <2>1 DEF CompleteInv
<1>15. DisksInv'
  BY <1>1, <1>2, <1>3, <1>6, <1>7, DisksKept
<1> QED
  BY <1>3, <1>9, <1>10, <1>11, <1>12, <1>13, <1>14, <1>15 DEF BusInv

\* Or its device is at address 0 if there is one.
LEMMA SkipAtZero ==
  ASSUME BusInv, pc \in {"port", "describe", "check"}, NextPort,
         UNCHANGED <<bus, described, usbDevices, disks>>,
         enabled' \in [Places -> BOOLEAN], address' \in [Places -> 0..126],
         \A p \in Places : p # Here => enabled'[p] = enabled[p] /\ address'[p] = address[p],
         address'[Here] = 0, failed' \in {failed, TRUE},
         ~failed' => plugged[Here] = NoDevice \/ enabled'[Here]
  PROVE  BusInv'
<1>1. pc \in Enumerating /\ TypeOK /\ ScanInv
  BY DEF Enumerating, BusInv
<1>2. Here[1] = pciDevices[i] /\ Other \in Places /\ Other # Here
  BY <1>1, HereFacts
<1>3. \A k \in DOMAIN usbDevices : usbDevices[k].address # 0
  <2>1. \A k \in DOMAIN usbDevices : usbDevices[k].address \in 1..126
    BY <1>1 DEF TypeOK
  <2>2. 0 \notin 1..126
    OBVIOUS
  <2> QED
    BY <2>1, <2>2, Zenon
<1> QED
  BY <1>2, <1>3, SkipPort

-----------------------------------------------------------------------------
(* Before the ports: the functions and the USB 2 controllers *)

LEMMA InitInv == Init => BusInv
<1> SUFFICES ASSUME Init PROVE BusInv
  OBVIOUS
<1>1. /\ pc = "scan" /\ i = 1 /\ port = 0 /\ pciDevices = <<>> /\ usbDevices = <<>>
      /\ booting = TRUE /\ earlier = 0
      /\ disks = <<>> /\ failed = FALSE /\ left = {} /\ described = NoDevice
      /\ plugged \in Plugs
      /\ routed \in {FALSE, \E f \in 1..Len(Bus) : Bus[f] = "ehci"}
  BY DEF Init
<1>2. enabled \in [Places -> BOOLEAN] /\ address \in [Places -> 0..126]
  BY DEF Init
<1>3. Len(Bus) \in Nat /\ 1 \in 1..Len(Bus)+1 /\ MAX_USB \in Nat
  BY BusFacts
<1>4. /\ DOMAIN usbDevices = {} /\ Len(usbDevices) = 0 /\ IsSeq(usbDevices)
      /\ DOMAIN disks = {} /\ IsSeq(disks) /\ DOMAIN pciDevices = {}
  BY <1>1, EmptyTable
<1>5. pciDevices \in Seq(1..Len(Bus))
  BY <1>1
<1>6. routed \in BOOLEAN
  BY <1>1
<1>7. TypeOK
  <2>1. booting \in BOOLEAN /\ earlier \in Nat /\ earlier + Len(usbDevices) <= MAX_USB
    BY <1>1, <1>3, <1>4
  <2>2. /\ \A k \in DOMAIN usbDevices : /\ usbDevices[k].place \in Places
                                        /\ usbDevices[k].address \in 1..126
                                        /\ usbDevices[k].descriptor \in Places
        /\ \A k \in DOMAIN disks : disks[k].device \in DOMAIN usbDevices /\ disks[k].units \in 1..16
    BY <1>4
  <2>3. i \in 1..Len(Bus)+1
    BY <1>1, <1>3
  <2>4. left \subseteq Places /\ failed \in BOOLEAN /\ described \in Places \cup {NoDevice}
    BY <1>1
  <2>5. pc \in {"scan", "ehci", "uhci", "port", "describe", "check", "configuration",
                "storage", "done", "undefined"} /\ port \in {0, 1}
    BY <1>1
  <2> QED
    BY <1>1, <1>2, <1>5, <1>6, <2>1, <2>2, <2>3, <2>4, <2>5 DEF TypeOK
<1>8. ScanInv
  <2>1. \A f \in 1..Len(Bus) : ~(f < i)
    BY <1>1, <1>3
  <2> QED
    BY <1>1, <1>3, <1>4, <1>5, <2>1 DEF ScanInv, Enumerating
<1>9. RoutedInv
  <2>1. routed => \E f \in 1..Len(Bus) : Bus[f] = "ehci"
    BY <1>1
  <2> QED
    BY <1>1, <2>1 DEF RoutedInv
<1>10. DevicesInv
  BY <1>1, <1>4 DEF DevicesInv
<1>11. PortsInv
  BY <1>1 DEF PortsInv, Enumerating
<1>12. RegisteredInv /\ DescriptorsInv
  BY <1>4 DEF RegisteredInv, DescriptorsInv
<1>13. CompleteInv
  BY <1>1 DEF CompleteInv, Behind
<1>14. DisksInv
  BY <1>1, <1>4 DEF DisksInv
<1> QED
  BY <1>7, <1>8, <1>9, <1>10, <1>11, <1>12, <1>13, <1>14 DEF BusInv

\* Before the ports nothing is registered and none has had its turn.
LEMMA BeforePorts ==
  ASSUME BusInv, pc \in {"scan", "ehci"}, pc' \in {"scan", "ehci", "uhci"},
         UNCHANGED <<port, plugged, booting, earlier, ports, described, usbDevices, disks,
                     failed, left>>,
         i' \in 1..Len(Bus)+1, routed' \in BOOLEAN,
         ScanInv', RoutedInv', \A p \in Places : ~Behind(p)'
  PROVE  BusInv'
<1>1. /\ TypeOK /\ DevicesInv /\ DisksInv
      /\ usbDevices = <<>> /\ disks = <<>> /\ left = {}
  BY DEF BusInv, DevicesInv, DisksInv, Behind
<1>2. /\ usbDevices' = <<>> /\ disks' = <<>> /\ left' = {}
      /\ DOMAIN usbDevices' = {} /\ IsSeq(usbDevices)' /\ DOMAIN disks' = {} /\ IsSeq(disks)'
  BY <1>1, EmptyTable
<1>3. pc' \notin Enumerating /\ pc' \notin {"storage", "done", "configuration"}
  BY DEF Enumerating
<1>4. TypeOK'
  BY <1>1 DEF TypeOK, ScanInv, ports
<1>5. DevicesInv'
  BY <1>2, <1>3 DEF DevicesInv
<1>6. PortsInv'
  BY <1>3 DEF PortsInv
<1>7. RegisteredInv' /\ DescriptorsInv'
  BY <1>2 DEF RegisteredInv, DescriptorsInv
<1>8. CompleteInv'
  BY DEF CompleteInv
<1>9. DisksInv'
  BY <1>2, <1>3 DEF DisksInv
<1> QED
  BY <1>4, <1>5, <1>6, <1>7, <1>8, <1>9 DEF BusInv

LEMMA CheckFunctionInv ==
  ASSUME BusInv, CheckFunction
  PROVE  BusInv'
<1>1. /\ pc = "scan" /\ pc' = "scan" /\ i <= Len(Bus) /\ i' = i + 1
      /\ routed' = routed /\ TypeOK /\ ScanInv /\ RoutedInv
      /\ UNCHANGED <<port, plugged, booting, earlier, ports, described, usbDevices, disks,
                     failed, left>>
  BY DEF CheckFunction, BusInv
<1>2. i \in 1..Len(Bus)+1 /\ Len(Bus) \in Nat
  BY <1>1, BusFacts DEF ScanInv
<1>3. i \in 1..Len(Bus) /\ i + 1 \in 1..Len(Bus)+1 /\ i \in Int
  BY <1>1, <1>2
<1>4. /\ pciDevices \in Seq(1..Len(Bus)) /\ Len(pciDevices) \in Nat
      /\ DOMAIN pciDevices = 1..Len(pciDevices)
      /\ \A a \in DOMAIN pciDevices : pciDevices[a] \in Int /\ pciDevices[a] < i
      /\ \A a, b \in DOMAIN pciDevices : a < b => pciDevices[a] < pciDevices[b]
      /\ \A f \in 1..Len(Bus) : Bus[f] # "absent" /\ f < i =>
           \E a \in DOMAIN pciDevices : pciDevices[a] = f
  BY <1>1 DEF ScanInv
<1>5. ScanInv'
  <2>1. CASE Bus[i] = "absent"
    <3>1. pciDevices' = pciDevices
      BY <2>1 DEF CheckFunction
    <3>2. \A a \in DOMAIN pciDevices : pciDevices[a] < i + 1
      BY <1>3, <1>4
    <3>3. ASSUME NEW f \in 1..Len(Bus), Bus[f] # "absent", f < i + 1
          PROVE  \E a \in DOMAIN pciDevices : pciDevices[a] = f
      <4>1. f # i
        BY <2>1, <3>3
      <4>2. f < i
        BY <1>3, <3>3, <4>1
      <4> QED
        BY <1>4, <3>3, <4>2
    <3> QED
      BY <1>1, <1>3, <1>4, <3>1, <3>2, <3>3 DEF ScanInv, Enumerating
  <2>2. CASE Bus[i] # "absent"
    <3> DEFINE n == Len(pciDevices)
    <3>1. pciDevices' = Append(pciDevices, i)
      BY <2>2 DEF CheckFunction
    <3>2. /\ pciDevices' \in Seq(1..Len(Bus)) /\ Len(pciDevices') = n + 1
          /\ \A a \in 1..n : pciDevices'[a] = pciDevices[a]
          /\ pciDevices'[n + 1] = i
      BY <1>3, <1>4, <3>1
    <3>3. DOMAIN pciDevices' = 1..n+1 /\ DOMAIN pciDevices = 1..n /\ n \in Nat
      BY <1>4, <3>2
    <3> HIDE DEF n
    <3>4. \A a \in DOMAIN pciDevices' : a \in 1..n \/ a = n + 1
      BY <3>3
    <3>5. \A a \in DOMAIN pciDevices' : pciDevices'[a] < i + 1
      BY <1>3, <1>4, <3>2, <3>3, <3>4
    <3>6. ASSUME NEW a \in DOMAIN pciDevices', NEW b \in DOMAIN pciDevices', a < b
          PROVE  pciDevices'[a] < pciDevices'[b]
      <4>1. a \in 1..n
        BY <3>3, <3>6
      <4>2. CASE b \in 1..n
        BY <1>4, <3>2, <3>3, <3>6, <4>1, <4>2
      <4>3. CASE b = n + 1
        BY <1>4, <3>2, <3>3, <4>1, <4>3
      <4> QED
        BY <3>4, <4>2, <4>3
    <3>7. ASSUME NEW f \in 1..Len(Bus), Bus[f] # "absent", f < i + 1
          PROVE  \E a \in DOMAIN pciDevices' : pciDevices'[a] = f
      <4>1. CASE f < i
        <5>1. PICK a \in 1..n : pciDevices[a] = f
          BY <1>4, <3>3, <3>7, <4>1
        <5>2. a \in DOMAIN pciDevices' /\ pciDevices'[a] = f
          BY <3>2, <3>3, <5>1
        <5> QED
          BY <5>2
      <4>2. CASE f = i
        <5>1. n + 1 \in DOMAIN pciDevices'
          BY <3>3
        <5> QED
          BY <3>2, <4>2, <5>1
      <4> QED
        BY <1>3, <3>7, <4>1, <4>2
    <3> QED
      BY <1>1, <1>3, <3>2, <3>5, <3>6, <3>7 DEF ScanInv, Enumerating
  <2> QED
    BY <2>1, <2>2
<1>6. RoutedInv'
  BY <1>1 DEF RoutedInv
<1>7. \A p \in Places : ~Behind(p)'
  BY <1>1 DEF Behind
<1>8. i' \in 1..Len(Bus)+1 /\ routed' \in BOOLEAN
  BY <1>1, <1>3 DEF TypeOK
<1> QED
  BY <1>1, <1>5, <1>6, <1>7, <1>8, BeforePorts

LEMMA ScanDoneInv ==
  ASSUME BusInv, ScanDone
  PROVE  BusInv'
<1>1. /\ pc = "scan" /\ pc' = "ehci" /\ i > Len(Bus) /\ i' = 1
      /\ routed' = routed /\ pciDevices' = pciDevices /\ TypeOK /\ ScanInv /\ RoutedInv
      /\ UNCHANGED <<port, plugged, booting, earlier, ports, described, usbDevices, disks,
                     failed, left>>
  BY DEF ScanDone, BusInv, bus
<1>2. i \in 1..Len(Bus)+1 /\ Len(Bus) \in Nat
  BY <1>1, BusFacts DEF ScanInv
<1>3. \A f \in 1..Len(Bus) : Bus[f] # "absent" => \E a \in DOMAIN pciDevices : pciDevices[a] = f
  BY <1>1, <1>2 DEF ScanInv
<1>4. /\ Len(pciDevices) \in Nat /\ DOMAIN pciDevices = 1..Len(pciDevices)
      /\ Len(pciDevices) <= Len(Bus)
  BY <1>1, FoundBound
<1>5. 1 \in 1..Len(pciDevices)
  <2>1. PICK f \in 1..Len(Bus) : Bus[f] # "absent"
    BY BusFacts
  <2>2. \E a \in 1..Len(pciDevices) : pciDevices[a] = f
    BY <1>3, <1>4, <2>1
  <2> QED
    BY <1>4, <2>2
<1>6. ScanInv'
  BY <1>1, <1>3, <1>4, <1>5 DEF ScanInv, Enumerating
<1>7. RoutedInv'
  <2>1. ASSUME routed PROVE \E a \in DOMAIN pciDevices : a >= 1 /\ Bus[pciDevices[a]] = "ehci"
    <3>1. PICK f \in 1..Len(Bus) : Bus[f] = "ehci"
      BY <1>1, <2>1 DEF RoutedInv
    <3>2. PICK a \in DOMAIN pciDevices : pciDevices[a] = f
      BY <1>3, <3>1
    <3> QED
      BY <1>4, <3>1, <3>2
  <2> QED
    BY <1>1, <2>1 DEF RoutedInv
<1>8. \A p \in Places : ~Behind(p)'
  BY <1>1 DEF Behind
<1>9. i' \in 1..Len(Bus)+1 /\ routed' \in BOOLEAN
  BY <1>1, <1>2 DEF TypeOK
<1> QED
  BY <1>1, <1>6, <1>7, <1>8, <1>9, BeforePorts

\* Every USB 2 controller is found, so the ports are routed when the last has
\* been looked at.
LEMMA EhciInv ==
  ASSUME BusInv, Ehci
  PROVE  BusInv'
<1>1. /\ pc = "ehci" /\ pciDevices' = pciDevices /\ TypeOK /\ ScanInv /\ RoutedInv
      /\ routed' = (routed /\ Bus[pciDevices[i]] # "ehci")
      /\ Step(Len(pciDevices), "ehci", "uhci")
      /\ UNCHANGED <<port, plugged, booting, earlier, ports, described, usbDevices, disks,
                     failed, left>>
  BY DEF Ehci, BusInv
<1>2. /\ Len(pciDevices) \in Nat /\ DOMAIN pciDevices = 1..Len(pciDevices)
      /\ Len(pciDevices) <= Len(Bus) /\ Len(Bus) \in Nat
  BY <1>1, FoundBound, BusFacts
<1>3. i \in 1..Len(pciDevices)
  BY <1>1, <1>2 DEF ScanInv
<1>4. \/ i < Len(pciDevices) /\ i' = i + 1 /\ pc' = "ehci"
      \/ i = Len(pciDevices) /\ i' = 1 /\ pc' = "uhci"
  <2>1. i < Len(pciDevices) \/ i = Len(pciDevices)
    BY <1>2, <1>3, LastOrNot
  <2>2. i = Len(pciDevices) => ~(i < Len(pciDevices))
    BY <1>2
  <2> QED
    BY <1>1, <2>1, <2>2 DEF Step
<1>5. i' \in 1..Len(pciDevices) /\ pc' \in {"ehci", "uhci"}
  <2>1. i < Len(pciDevices) => i + 1 \in 1..Len(pciDevices)
    BY <1>2, <1>3
  <2>2. 1 \in 1..Len(pciDevices)
    BY <1>2, <1>3
  <2> QED
    BY <1>4, <2>1, <2>2
<1>6. ScanInv'
  BY <1>1, <1>2, <1>5 DEF ScanInv, Enumerating
<1>7. RoutedInv'
  <2>1. ASSUME routed' PROVE \E a \in 1..Len(pciDevices) : a >= i + 1 /\ Bus[pciDevices[a]] = "ehci"
    <3>1. PICK a \in 1..Len(pciDevices) : a >= i /\ Bus[pciDevices[a]] = "ehci"
      BY <1>1, <1>2, <2>1 DEF RoutedInv
    <3>2. a # i
      BY <1>1, <2>1, <3>1
    <3>3. a >= i + 1
      BY <1>3, <3>1, <3>2
    <3> QED
      BY <3>1, <3>3
  <2>2. CASE i < Len(pciDevices) /\ i' = i + 1 /\ pc' = "ehci"
    BY <1>1, <1>2, <2>1, <2>2 DEF RoutedInv
  <2>3. CASE i = Len(pciDevices) /\ i' = 1 /\ pc' = "uhci"
    <3>1. ~routed'
      BY <1>2, <2>1, <2>3
    <3> QED
      BY <2>3, <3>1 DEF RoutedInv
  <2> QED
    BY <1>4, <2>2, <2>3
<1>8. ASSUME NEW p \in Places PROVE ~Behind(p)'
  <2>1. CASE pc' = "ehci"
    BY <2>1 DEF Behind
  <2>2. CASE pc' = "uhci"
    <3>1. PICK a \in 1..Len(pciDevices) : pciDevices[a] = p[1]
      BY <1>1, <1>2, PlaceFound
    <3>2. i' = 1
      BY <1>4, <2>2
    <3>3. \A b \in 1..Len(pciDevices) : pciDevices[b] \in Int
      BY <1>1, <1>2 DEF ScanInv
    <3>4. 1 < a => pciDevices[1] < pciDevices[a]
      BY <1>1, <1>2, <1>3 DEF ScanInv
    <3>5. 1 \in 1..Len(pciDevices) /\ (1 < a \/ a = 1)
      BY <1>2, <3>1
    <3>6. ~(p[1] < pciDevices[1])
      BY <3>1, <3>3, <3>4, <3>5
    <3> QED
      BY <1>1, <2>2, <3>2, <3>6 DEF Behind
  <2> QED
    BY <1>5, <2>1, <2>2
<1>9. i' \in 1..Len(Bus)+1 /\ routed' \in BOOLEAN
  BY <1>1, <1>2, <1>5 DEF TypeOK
<1>10. pc' \in {"scan", "ehci", "uhci"} /\ pc \in {"scan", "ehci"}
  BY <1>1, <1>5
<1> QED
  BY <1>1, <1>6, <1>7, <1>8, <1>9, <1>10, BeforePorts

-----------------------------------------------------------------------------
(* The controllers *)

\* What a step keeps that touches the ports of the i-th controller only,
\* before their turns.
LEMMA ControllerTouched ==
  ASSUME BusInv, pc = "uhci", pc' \in {"uhci", "port", "storage", "done"},
         UNCHANGED <<bus, described, usbDevices, disks, left>>,
         enabled' \in [Places -> BOOLEAN], address' \in [Places -> 0..126],
         \A p \in Places : p[1] # pciDevices[i] =>
           enabled'[p] = enabled[p] /\ address'[p] = address[p],
         failed' \in {failed, TRUE},
         i' \in 1..Len(Bus)+1, port' \in {0, 1},
         pc' = "storage" => i' = 1 /\ usbDevices # <<>>,
         pc' = "done" /\ booting => usbDevices = <<>>,
         \A p \in Places : Behind(p) => Behind(p)',
         \A p \in Places : Behind(p)' /\ ~failed' => Behind(p)
  PROVE  /\ TypeOK' /\ DevicesInv' /\ RegisteredInv' /\ DescriptorsInv'
         /\ CompleteInv' /\ DisksInv'
<1>1. /\ TypeOK /\ ScanInv /\ DevicesInv /\ RegisteredInv
      /\ DescriptorsInv /\ CompleteInv /\ DisksInv
  BY DEF BusInv
<1>2. /\ usbDevices' = usbDevices /\ plugged' = plugged /\ routed' = routed /\ disks' = disks
      /\ described' = described /\ pciDevices' = pciDevices /\ left' = left
      /\ booting' = booting /\ earlier' = earlier
  BY DEF bus
<1>3. /\ \A k \in DOMAIN usbDevices : usbDevices[k].place \in Places /\ usbDevices[k].address \in 1..126
      /\ IsSeq(usbDevices)
  BY <1>1 DEF TypeOK, DevicesInv
<1>4. Len(usbDevices) \in Nat /\ DOMAIN usbDevices = 1..Len(usbDevices)
      /\ (usbDevices # <<>> => Len(usbDevices) > 0)
  <2>1. Len(usbDevices) \in Nat /\ DOMAIN usbDevices = 1..Len(usbDevices)
    BY <1>3, SeqFacts
  <2>2. usbDevices # <<>> => Len(usbDevices) > 0
    BY <1>3 DEF IsSeq
  <2> QED
    BY <2>1, <2>2
<1>5. pc \notin {"undefined", "configuration", "storage", "done"}
      /\ pc' \notin {"scan", "ehci", "configuration"}
  OBVIOUS
<1>6. TypeOK'
  BY <1>1, <1>2 DEF TypeOK
<1>7. DevicesInv'
  <2>1. pc' = "storage" => i' \in DOMAIN usbDevices
    BY <1>4
  <2>2. \A q \in left' : Behind(q)'
    BY <1>1, <1>2 DEF TypeOK, DevicesInv
  <2> QED
    BY <1>1, <1>2, <1>3, <1>5, <2>1, <2>2, TableKept
<1>8. \A p \in Places : Undisturbed(p)' => Undisturbed(p)
  BY <1>2 DEF Undisturbed
<1>9. RegisteredInv'
  <2>1. ASSUME NEW k \in DOMAIN usbDevices, Undisturbed(usbDevices[k].place), NEW q \in Places
        PROVE  Answers(q, k)' <=> Answers(q, k)
    <3>1. CASE q[1] # pciDevices[i]
      BY <1>2, <3>1 DEF Answers, Connected
    <3>2. CASE q[1] = pciDevices[i]
      <4>1. Behind(usbDevices[k].place)
        BY <1>1, <1>5 DEF DevicesInv, Pending
      <4>2. usbDevices[k].place[1] < pciDevices[i]
        BY <4>1 DEF Behind
      <4>3. usbDevices[k].place[1] # q[1]
        BY <1>3, <3>2, <4>2, PlaceFacts
      <4> QED
        BY <1>2, <4>3 DEF Answers
    <3> QED
      BY <3>1, <3>2
  <2> QED
    BY <1>1, <1>2, <1>3, <1>5, <1>8, <2>1, RegisteredKept
<1>10. DescriptorsInv'
  BY <1>1, <1>2, <1>3, <1>5, <1>8, DescriptorsKept
<1>11. CompleteInv'
  <2>1. ASSUME ~failed', NEW p \in Places, Behind(p)', plugged'[p] # NoDevice, Undisturbed(p)'
        PROVE  \E k \in DOMAIN usbDevices' : usbDevices'[k].place = p
    <3>1. ~failed
      BY <2>1
    <3>2. Behind(p) /\ Undisturbed(p)
      BY <1>8, <2>1
    <3> QED
      BY <1>1, <1>2, <1>5, <2>1, <3>1, <3>2 DEF CompleteInv
  <2> QED
    BY <2>1 DEF CompleteInv
<1>12. DisksInv'
  BY <1>1, <1>2, <1>3, <1>5, DisksKept
<1> QED
  BY <1>6, <1>7, <1>9, <1>10, <1>11, <1>12

\* NotUhci and ControllerFails.
LEMMA ControllerPassed ==
  ASSUME BusInv, pc = "uhci", NextController,
         UNCHANGED <<port, bus, address, described, usbDevices, disks, left>>,
         enabled' \in [Places -> BOOLEAN],
         \A p \in Places : p[1] # pciDevices[i] => enabled'[p] = enabled[p],
         failed' \in {failed, TRUE},
         ~failed' => Bus[pciDevices[i]] # "uhci"
  PROVE  BusInv'
<1>1. TypeOK /\ ScanInv /\ RoutedInv
  BY DEF BusInv
<1>2. /\ pc' \in {"uhci", "storage", "done"} /\ ScanInv' /\ RoutedInv'
      /\ i' \in 1..Len(Bus)+1
      /\ pc' = "storage" => i' = 1 /\ usbDevices # <<>>
      /\ \A p \in Places : Behind(p)' <=> p[1] <= pciDevices[i]
  BY <1>1, ControllerMoves
<1>3. pc' = "done" /\ booting => usbDevices = <<>>
  BY <1>1, ControllerMoves
<1>4. pciDevices[i] \in Int
  BY <1>1 DEF ScanInv
<1>5. ASSUME NEW p \in Places PROVE Behind(p) => Behind(p)'
  <2>1. Behind(p) => p[1] < pciDevices[i]
    BY DEF Behind
  <2> QED
    BY <1>2, <1>4, <2>1, PlaceFacts
<1>6. ASSUME NEW p \in Places, Behind(p)', ~failed' PROVE Behind(p)
  <2>1. p[1] # pciDevices[i]
    BY <1>6, PlaceFacts
  <2>2. p[1] < pciDevices[i]
    BY <1>2, <1>4, <1>6, <2>1, PlaceFacts
  <2> QED
    BY <2>2 DEF Behind, Enumerating
<1>7. port' \in {0, 1} /\ address' \in [Places -> 0..126]
      /\ \A p \in Places : address'[p] = address[p]
  BY <1>1 DEF TypeOK
<1>8. /\ TypeOK' /\ DevicesInv' /\ RegisteredInv' /\ DescriptorsInv' /\ CompleteInv' /\ DisksInv'
  BY <1>2, <1>3, <1>5, <1>6, <1>7, ControllerTouched
<1>9. PortsInv'
  BY <1>2 DEF PortsInv, Enumerating
<1> QED
  BY <1>2, <1>8, <1>9 DEF BusInv

LEMMA NotUhciInv ==
  ASSUME BusInv, NotUhci
  PROVE  BusInv'
<1>1. /\ pc = "uhci" /\ Bus[pciDevices[i]] # "uhci" /\ NextController
      /\ UNCHANGED <<port, bus, address, described, usbDevices, disks, left>>
      /\ enabled' = enabled /\ failed' = failed
  BY DEF NotUhci, ports
<1>2. enabled' \in [Places -> BOOLEAN]
  BY <1>1 DEF BusInv, TypeOK
<1> QED
  BY <1>1, <1>2, ControllerPassed

LEMMA ControllerFailsInv ==
  ASSUME BusInv, ControllerFails
  PROVE  BusInv'
<1>1. /\ pc = "uhci" /\ NextController /\ failed' = TRUE
      /\ UNCHANGED <<port, bus, address, described, usbDevices, disks, left>>
      /\ enabled' = [p \in Places |-> enabled[p] /\ p[1] # pciDevices[i]]
  BY DEF ControllerFails
<1>2. enabled \in [Places -> BOOLEAN]
  BY DEF BusInv, TypeOK
<1>3. enabled' \in [Places -> BOOLEAN]
  BY <1>1
<1>4. ASSUME NEW p \in Places, p[1] # pciDevices[i] PROVE enabled'[p] = enabled[p]
  BY <1>1, <1>2, <1>4
<1> QED
  BY <1>1, <1>3, <1>4, ControllerPassed

LEMMA ResetControllerInv ==
  ASSUME BusInv, ResetController
  PROVE  BusInv'
<1>1. /\ pc = "uhci" /\ Bus[pciDevices[i]] = "uhci" /\ pc' = "port" /\ port' = 0 /\ i' = i
      /\ failed' = failed
      /\ UNCHANGED <<bus, described, usbDevices, disks, left>>
      /\ enabled' = [p \in Places |-> enabled[p] /\ p[1] # pciDevices[i]]
      /\ address' = [p \in Places |-> IF p[1] = pciDevices[i] THEN 0 ELSE address[p]]
  BY DEF ResetController
<1>2. TypeOK /\ ScanInv /\ RoutedInv
  BY DEF BusInv
<1>3. /\ enabled \in [Places -> BOOLEAN] /\ address \in [Places -> 0..126]
      /\ pciDevices' = pciDevices /\ routed' = routed
  BY <1>1, <1>2 DEF TypeOK, bus
<1>4. enabled' \in [Places -> BOOLEAN]
  BY <1>1
<1>5. address' \in [Places -> 0..126]
  BY <1>1, <1>3
<1>6. ASSUME NEW p \in Places, p[1] # pciDevices[i]
      PROVE  enabled'[p] = enabled[p] /\ address'[p] = address[p]
  <2>1. enabled'[p] = enabled[p]
    BY <1>1, <1>3, <1>6
  <2>2. address'[p] = address[p]
    BY <1>1, <1>6
  <2> QED
    BY <2>1, <2>2
<1>7. ScanInv'
  BY <1>1, <1>2, <1>3 DEF ScanInv, Enumerating
<1>8. RoutedInv'
  BY <1>1, <1>2, <1>3 DEF RoutedInv
<1>9. ASSUME NEW p \in Places PROVE Behind(p)' <=> Behind(p)
  <2>1. Behind(p)' <=> p[1] < pciDevices[i] \/ (p[1] = pciDevices[i] /\ p[2] < 0)
    BY <1>1, <1>3 DEF Behind, Enumerating
  <2>2. Behind(p) <=> p[1] < pciDevices[i]
    BY <1>1 DEF Behind, Enumerating
  <2>3. ~(p[2] < 0)
    BY PlaceFacts
  <2> QED
    BY <2>1, <2>2, <2>3
<1>10. i' \in 1..Len(Bus)+1 /\ port' \in {0, 1} /\ pc' \in {"uhci", "port", "storage", "done"}
  BY <1>1, <1>2 DEF TypeOK
<1>11. /\ TypeOK' /\ DevicesInv' /\ RegisteredInv' /\ DescriptorsInv' /\ CompleteInv' /\ DisksInv'
  BY <1>1, <1>4, <1>5, <1>6, <1>9, <1>10, ControllerTouched
<1>12. PortsInv'
  <2>1. pciDevices[i] \in 1..Len(Bus)
    BY <1>1, <1>2 DEF ScanInv
  <2>2. <<pciDevices[i], 0>> \in Places /\ <<pciDevices[i], 0>>[1] = pciDevices[i]
        /\ <<pciDevices[i], 1>> \in Places /\ <<pciDevices[i], 1>>[1] = pciDevices[i]
    BY <1>1, <2>1, MakePlace
  <2>3. Here' = <<pciDevices[i], 0>> /\ Other' = <<pciDevices[i], 1>>
    <3>1. 1 - 0 = 1
      OBVIOUS
    <3> QED
      BY <1>1, <1>3, <3>1 DEF Here, Other
  <2>4. address'[Here'] = 0 /\ address'[Other'] = 0
    BY <1>1, <2>2, <2>3
  <2>5. ~enabled'[Other']
    BY <1>1, <2>2, <2>3
  <2> QED
    BY <1>1, <2>4, <2>5 DEF PortsInv
<1> QED
  BY <1>7, <1>8, <1>11, <1>12 DEF BusInv

-----------------------------------------------------------------------------
(* Ports that are passed over *)

LEMMA AtPort ==
  ASSUME BusInv, pc \in {"port", "describe", "check"}
  PROVE  /\ Here \in Places /\ pc \in Enumerating /\ address[Here] = 0
         /\ enabled \in [Places -> BOOLEAN] /\ address \in [Places -> 0..126]
         /\ failed \in BOOLEAN
<1>1. pc \in Enumerating /\ pc # "configuration"
  BY DEF Enumerating
<1>2. Here \in Places
  BY <1>1, HereFacts DEF BusInv
<1>3. address[Here] = 0
  BY <1>1 DEF BusInv, PortsInv
<1> QED
  BY <1>1, <1>2, <1>3 DEF BusInv, TypeOK

LEMMA NotConnectedInv ==
  ASSUME BusInv, NotConnected
  PROVE  BusInv'
<1>1. /\ pc = "port" /\ ~Connected(Here) /\ NextPort
      /\ UNCHANGED <<bus, described, usbDevices, disks>>
      /\ enabled' = enabled /\ address' = address /\ failed' = failed
  BY DEF NotConnected, ports
<1>2. /\ address[Here] = 0 /\ enabled \in [Places -> BOOLEAN] /\ address \in [Places -> 0..126]
  BY <1>1, AtPort
<1>3. plugged[Here] = NoDevice
  <2>1. ~routed
    BY <1>1 DEF BusInv, RoutedInv
  <2> QED
    BY <1>1, <2>1 DEF Connected
<1> QED
  BY <1>1, <1>2, <1>3, SkipAtZero

\* The port was reset, and nothing came of it.
LEMMA ResetInVain ==
  ASSUME BusInv, pc \in {"port", "describe", "check"}, NextPort, NEW late \in BOOLEAN,
         enabled' = [enabled EXCEPT ![Here] = late], address' = [address EXCEPT ![Here] = 0],
         failed' = TRUE, UNCHANGED <<bus, described, usbDevices, disks>>
  PROVE  BusInv'
<1>1. Here \in Places /\ enabled \in [Places -> BOOLEAN] /\ address \in [Places -> 0..126]
  BY AtPort
<1>2. enabled' \in [Places -> BOOLEAN]
  BY <1>1
<1>3. address' \in [Places -> 0..126] /\ address'[Here] = 0
  <2>1. 0 \in 0..126
    OBVIOUS
  <2> QED
    BY <1>1, <2>1
<1>4. \A p \in Places : p # Here => enabled'[p] = enabled[p] /\ address'[p] = address[p]
  BY <1>1
<1>5. failed' \in {failed, TRUE} /\ failed'
  OBVIOUS
<1> QED
  BY <1>2, <1>3, <1>4, <1>5, SkipAtZero

LEMMA ResetPortFailsInv ==
  ASSUME BusInv, ResetPortFails
  PROVE  BusInv'
<1>1. PICK late \in BOOLEAN : enabled' = [enabled EXCEPT ![Here] = late]
  BY DEF ResetPortFails
<1>2. /\ pc = "port" /\ NextPort /\ failed' = TRUE
      /\ UNCHANGED <<bus, described, usbDevices, disks>>
      /\ address' = [address EXCEPT ![Here] = 0]
  BY DEF ResetPortFails
<1> QED
  BY <1>1, <1>2, ResetInVain

\* The device stays at its port, enabled and at address 0.
LEMMA DescribeFailsInv ==
  ASSUME BusInv, DescribeFails
  PROVE  BusInv'
<1>1. /\ pc = "describe" /\ NextPort
      /\ UNCHANGED <<bus, described, usbDevices, disks>>
      /\ enabled' = enabled /\ address' = address
      /\ failed' = (failed \/ CanDescribe(plugged[Here]))
  BY DEF DescribeFails, ports
<1>2. /\ address[Here] = 0 /\ enabled \in [Places -> BOOLEAN] /\ address \in [Places -> 0..126]
      /\ pc \in Enumerating /\ failed \in BOOLEAN
  BY <1>1, AtPort
<1>3. enabled[Here]
  BY <1>1, <1>2 DEF BusInv, PortsInv
<1>4. failed' \in {failed, TRUE}
  BY <1>1, <1>2 DEF CanDescribe
<1> QED
  BY <1>1, <1>2, <1>3, <1>4, SkipAtZero

LEMMA ManyConfigurationsInv ==
  ASSUME BusInv, ManyConfigurations
  PROVE  BusInv'
<1>1. /\ pc = "check" /\ NextPort
      /\ UNCHANGED <<bus, described, usbDevices, disks>>
      /\ enabled' = enabled /\ address' = address /\ failed' = failed
  BY DEF ManyConfigurations, ports
<1>2. /\ address[Here] = 0 /\ enabled \in [Places -> BOOLEAN] /\ address \in [Places -> 0..126]
      /\ pc \in Enumerating
  BY <1>1, AtPort
<1>3. enabled[Here]
  BY <1>1, <1>2 DEF BusInv, PortsInv
<1> QED
  BY <1>1, <1>2, <1>3, SkipAtZero

-----------------------------------------------------------------------------
(* At one port *)

\* The port under enumeration stays what it is.
LEMMA SamePort ==
  ASSUME TypeOK, ScanInv, RoutedInv, pc \in Enumerating, pc' \in Enumerating,
         i' = i, port' = port, UNCHANGED <<bus, left>>
  PROVE  /\ ScanInv' /\ RoutedInv' /\ Here' = Here /\ Other' = Other
         /\ \A p \in Places : Behind(p)' <=> Behind(p)
         /\ \A p \in Places : Undisturbed(p)' <=> Undisturbed(p)
<1>1. pc \notin {"scan", "ehci", "uhci"} /\ pc' \notin {"scan", "ehci", "uhci"}
  BY DEF Enumerating
<1>2. pciDevices' = pciDevices /\ routed' = routed /\ left' = left
  BY DEF bus
<1>3. ScanInv'
  BY <1>1, <1>2 DEF ScanInv
<1>4. RoutedInv'
  BY <1>1, <1>2 DEF RoutedInv
<1>5. Here' = Here /\ Other' = Other
  BY <1>2 DEF Here, Other
<1>6. \A p \in Places : Behind(p)' <=> Behind(p)
  BY <1>1, <1>2 DEF Behind
<1>7. \A p \in Places : Undisturbed(p)' <=> Undisturbed(p)
  BY <1>2 DEF Undisturbed
<1> QED
  BY <1>3, <1>4, <1>5, <1>6, <1>7

\* Until it has an address nothing but the port under enumeration changes.
LEMMA StayAtPort ==
  ASSUME BusInv, pc \in {"port", "describe"}, pc' \in {"describe", "check"},
         i' = i, port' = port, UNCHANGED <<bus, usbDevices, disks, failed, left>>,
         described' \in Places \cup {NoDevice},
         enabled' \in [Places -> BOOLEAN], address' \in [Places -> 0..126],
         \A p \in Places : p # Here => enabled'[p] = enabled[p] /\ address'[p] = address[p],
         address'[Here] = 0, enabled'[Here], Connected(Here),
         pc' = "check" => described' \in Places /\ (Undisturbed(Here) => described' = Here)
  PROVE  BusInv'
<1>1. /\ TypeOK /\ ScanInv /\ RoutedInv /\ DevicesInv /\ PortsInv /\ RegisteredInv
      /\ DescriptorsInv /\ CompleteInv /\ DisksInv
  BY DEF BusInv
<1>2. /\ pc \in Enumerating /\ pc' \in Enumerating
      /\ pc \notin {"configuration", "undefined", "storage", "done"}
      /\ pc' \notin {"configuration", "undefined", "storage", "done", "scan", "ehci", "port"}
  BY DEF Enumerating
<1>3. /\ ScanInv' /\ RoutedInv' /\ Here' = Here /\ Other' = Other
      /\ \A p \in Places : Behind(p)' <=> Behind(p)
      /\ \A p \in Places : Undisturbed(p)' <=> Undisturbed(p)
  BY <1>1, <1>2, SamePort
<1>4. /\ Here \in Places /\ Other \in Places /\ Other # Here /\ ~Behind(Here)
      /\ port \in {0, 1}
  BY <1>1, <1>2, HereFacts
<1>5. /\ usbDevices' = usbDevices /\ plugged' = plugged /\ routed' = routed /\ disks' = disks
      /\ failed' = failed /\ pciDevices' = pciDevices /\ left' = left
      /\ booting' = booting /\ earlier' = earlier
  BY DEF bus
<1>6. /\ \A k \in DOMAIN usbDevices : usbDevices[k].place \in Places /\ usbDevices[k].address \in 1..126
      /\ IsSeq(usbDevices)
  BY <1>1 DEF TypeOK, DevicesInv
<1>7. TypeOK'
  <2>1. i' \in 1..Len(Bus)+1 /\ port' \in {0, 1}
    BY <1>1, <1>2 DEF TypeOK
  <2> QED
    BY <1>1, <1>5, <2>1 DEF TypeOK
<1>8. DevicesInv'
  <2>1. \A q \in left' : Behind(q)'
    BY <1>1, <1>3, <1>5 DEF TypeOK, DevicesInv
  <2> QED
    BY <1>1, <1>2, <1>3, <1>5, <1>6, <2>1, TableKept
<1>9. PortsInv'
  <2>1. enabled'[Other] = enabled[Other] /\ address'[Other] = address[Other]
    BY <1>4
  <2>2. Connected(Here)'
    BY <1>3, <1>5 DEF Connected
  <2>3. Undisturbed(Here)' => Undisturbed(Here)
    BY <1>3, <1>5 DEF Undisturbed
  <2>4. /\ port = 0 => ~enabled[Other] /\ address[Other] = 0
        /\ port = 1 /\ enabled[Other] => Other \in left \/ Found(Other)
    BY <1>1, <1>2 DEF PortsInv
  <2>5. address'[Here'] = 0 /\ enabled'[Here'] /\ port' = port
    BY <1>3
  <2>6. pc' = "check" => described' \in Places /\ (Undisturbed(Here)' => described' = Here')
    BY <1>3, <2>3
  <2>7. /\ port' = 0 => ~enabled'[Other'] /\ address'[Other'] = 0
        /\ port' = 1 /\ enabled'[Other'] => Other' \in left' \/ Found(Other)'
    BY <1>3, <1>5, <2>1, <2>4 DEF Found
  <2> QED
    BY <1>2, <2>2, <2>5, <2>6, <2>7 DEF PortsInv
<1>10. RegisteredInv'
  <2>1. ASSUME NEW k \in DOMAIN usbDevices, Undisturbed(usbDevices[k].place), NEW q \in Places
        PROVE  Answers(q, k)' <=> Answers(q, k)
    <3>1. CASE q # Here
      BY <1>5, <3>1 DEF Answers, Connected
    <3>2. CASE q = Here
      <4>1. ~Answers(q, k)'
        BY <1>5, <1>6, <2>1, <3>2 DEF Answers
      <4>2. Behind(usbDevices[k].place)
        BY <1>1, <1>2 DEF DevicesInv, Pending
      <4>3. q # usbDevices[k].place
        BY <1>4, <3>2, <4>2
      <4>4. ~Answers(q, k)
        BY <1>1, <1>2, <2>1, <4>3 DEF RegisteredInv, Pending
      <4> QED
        BY <4>1, <4>4
    <3> QED
      BY <3>1, <3>2
  <2> QED
    BY <1>1, <1>2, <1>3, <1>5, <1>6, <2>1, RegisteredKept
<1>11. DescriptorsInv'
  BY <1>1, <1>2, <1>3, <1>5, <1>6, DescriptorsKept
<1>12. CompleteInv'
  <2>1. ASSUME ~failed', NEW p \in Places, Behind(p)', plugged'[p] # NoDevice, Undisturbed(p)'
        PROVE  \E k \in DOMAIN usbDevices' : usbDevices'[k].place = p
    <3>1. Behind(p) /\ Undisturbed(p) /\ ~failed
      BY <1>3, <1>5, <2>1
    <3> QED
      BY <1>1, <1>2, <1>5, <2>1, <3>1 DEF CompleteInv
  <2> QED
    BY <2>1 DEF CompleteInv
<1>13. DisksInv'
  BY <1>1, <1>2, <1>5, <1>6, DisksKept
<1> QED
  BY <1>3, <1>7, <1>8, <1>9, <1>10, <1>11, <1>12, <1>13 DEF BusInv

LEMMA ResetPortInv ==
  ASSUME BusInv, ResetPort
  PROVE  BusInv'
<1>1. /\ pc = "port" /\ pc' = "describe" /\ i' = i /\ port' = port /\ Connected(Here)
      /\ UNCHANGED <<bus, usbDevices, disks, failed, left>> /\ described' = described
      /\ enabled' = [enabled EXCEPT ![Here] = TRUE]
      /\ address' = [address EXCEPT ![Here] = 0]
  BY DEF ResetPort
<1>2. /\ Here \in Places /\ enabled \in [Places -> BOOLEAN] /\ address \in [Places -> 0..126]
  BY <1>1, AtPort
<1>3. enabled' \in [Places -> BOOLEAN] /\ enabled'[Here]
  BY <1>1, <1>2
<1>4. address' \in [Places -> 0..126] /\ address'[Here] = 0
  <2>1. 0 \in 0..126
    OBVIOUS
  <2> QED
    BY <1>1, <1>2, <2>1
<1>5. \A p \in Places : p # Here => enabled'[p] = enabled[p] /\ address'[p] = address[p]
  BY <1>1, <1>2
<1>6. described' \in Places \cup {NoDevice}
  BY <1>1 DEF BusInv, TypeOK
<1> QED
  BY <1>1, <1>3, <1>4, <1>5, <1>6, StayAtPort

\* Who answers at address 0.
LEMMA ZeroAnswers ==
  ASSUME BusInv, pc \in {"describe", "check"}, Undisturbed(Here),
         NEW en, NEW ad, en[Other] = enabled[Other], ad[Other] = address[Other]
  PROVE  Responders(pciDevices[i], 0, en, ad) \subseteq {Here}
<1>1. /\ TypeOK /\ ScanInv /\ DevicesInv /\ PortsInv
  BY DEF BusInv
<1>2. pc \in Enumerating
  BY DEF Enumerating
<1>3. \A p \in Places : p[1] = pciDevices[i] => p = Here \/ p = Other
  BY <1>1, <1>2, HereFacts
<1>4. ~(enabled[Other] /\ address[Other] = 0)
  BY <1>1, AloneAtZero
<1> QED
  BY <1>3, <1>4 DEF Responders

LEMMA DescribedInv ==
  ASSUME BusInv, Described
  PROVE  BusInv'
<1>1. /\ pc = "describe" /\ pc' = "check" /\ i' = i /\ port' = port
      /\ UNCHANGED <<bus, usbDevices, disks, failed, left>>
      /\ enabled' = enabled /\ address' = address
  BY DEF Described, ports
<1>2. described' \in Responders(pciDevices[i], 0, enabled, address)
  BY DEF Described
<1>3. /\ address[Here] = 0 /\ enabled \in [Places -> BOOLEAN] /\ address \in [Places -> 0..126]
      /\ pc \in Enumerating
  BY <1>1, AtPort
<1>4. enabled[Here] /\ Connected(Here)
  BY <1>1, <1>3 DEF BusInv, PortsInv
<1>5. Undisturbed(Here) => described' = Here
  BY <1>1, <1>2, ZeroAnswers
<1>6. described' \in Places
  BY <1>2 DEF Responders
<1> QED
  BY <1>1, <1>3, <1>4, <1>5, <1>6, StayAtPort

-----------------------------------------------------------------------------
(* Registration *)

\* Where a registered device is, if it is at the controller under enumeration.
LEMMA RegisteredHere ==
  ASSUME BusInv, pc \in Enumerating, NEW k \in DOMAIN usbDevices, ~Pending(k),
         usbDevices[k].place[1] = pciDevices[i]
  PROVE  usbDevices[k].place = Other /\ port = 1
<1>1. /\ usbDevices[k].place \in Places /\ Behind(usbDevices[k].place)
      /\ TypeOK /\ ScanInv
  BY DEF BusInv, TypeOK, DevicesInv
<1>2. /\ usbDevices[k].place = Here \/ usbDevices[k].place = Other
      /\ ~Behind(Here) /\ (port = 0 => ~Behind(Other)) /\ port \in {0, 1}
  BY <1>1, HereFacts
<1> QED
  BY <1>1, <1>2

\* A controller has two ports, so one address at most is taken.
LEMMA FreeIdRight ==
  ASSUME BusInv, pc = "check"
  PROVE  FreeId \in 1..126 /\ FreeId \notin Taken
<1>1. pc \in Enumerating /\ \A k \in DOMAIN usbDevices : ~Pending(k)
  BY DEF Enumerating, Pending
<1>2. \A k, l \in DOMAIN usbDevices : usbDevices[k].place = usbDevices[l].place => k = l
  BY DEF BusInv, DevicesInv
<1>3. \A k, l \in DOMAIN usbDevices :
        usbDevices[k].place[1] = pciDevices[i] /\ usbDevices[l].place[1] = pciDevices[i] => k = l
  BY <1>1, <1>2, RegisteredHere
<1>4. \A a, b \in Taken : a = b
  BY <1>3 DEF Taken
<1>5. 1 \in 1..126 /\ 2 \in 1..126 /\ \A f \in 1..126 : 1 <= f /\ (f # 1 => 2 <= f)
  OBVIOUS
<1>6. \E id \in 1..126 \ Taken : \A free \in 1..126 \ Taken : id <= free
  <2>1. CASE 1 \notin Taken
    BY <1>5, <2>1
  <2>2. CASE 1 \in Taken
    <3>1. 2 \notin Taken /\ \A f \in 1..126 \ Taken : f # 1
      BY <1>4, <2>2
    <3> QED
      BY <1>5, <3>1
  <2> QED
    BY <2>1, <2>2
<1>7. FreeId \in 1..126 \ Taken
  BY <1>6 DEF FreeId
<1> QED
  BY <1>7

\* What SET_ADDRESS does to the ports, whether it is seen to succeed or not.
LEMMA AddressGiven ==
  ASSUME BusInv, pc = "check", NEW again \in BOOLEAN, TakeAddress(again)
  PROVE  /\ enabled' \in [Places -> BOOLEAN] /\ address' \in [Places -> 0..126]
         /\ address'[Here] \in {0, FreeId}
         /\ \A p \in Places : p[1] # pciDevices[i] =>
              enabled'[p] = enabled[p] /\ address'[p] = address[p]
         /\ Undisturbed(Here) =>
              enabled'[Other] = enabled[Other] /\ address'[Other] = address[Other]
<1>1. pc \in Enumerating
  BY DEF Enumerating
<1> DEFINE reset == [address EXCEPT ![Here] = 0]
           R == Responders(pciDevices[i], 0, enabled', reset)
<1>2. enabled' = [enabled EXCEPT ![Here] = again]
  BY DEF TakeAddress
<1>3. PICK taken \in SUBSET R :
        address' = [p \in Places |-> IF p \in taken THEN FreeId ELSE reset[p]]
  BY DEF TakeAddress
<1>4. /\ Here \in Places /\ Other \in Places /\ Here # Other /\ Here[1] = pciDevices[i]
      /\ enabled \in [Places -> BOOLEAN] /\ address \in [Places -> 0..126]
  BY <1>1, HereFacts DEF BusInv, TypeOK
<1>5. reset \in [Places -> 0..126] /\ reset[Here] = 0
      /\ \A p \in Places : p # Here => reset[p] = address[p]
  <2>1. 0 \in 0..126
    OBVIOUS
  <2> QED
    BY <1>4, <2>1
<1>6. \A p \in R : p \in Places /\ p[1] = pciDevices[i]
  BY DEF Responders
<1>7. Undisturbed(Here) => R \subseteq {Here}
  <2>1. enabled'[Other] = enabled[Other]
    BY <1>2, <1>4
  <2>2. reset[Other] = address[Other]
    BY <1>4, <1>5
  <2> HIDE DEF reset
  <2> QED
    BY <1>1, <2>1, <2>2, ZeroAnswers
<1>8. FreeId \in 0..126
  <2>1. FreeId \in 1..126
    BY <1>1, FreeIdRight
  <2> QED
    BY <2>1
<1> HIDE DEF reset, R
<1>9. enabled' \in [Places -> BOOLEAN]
  BY <1>2, <1>4
<1>10. address' \in [Places -> 0..126]
  BY <1>3, <1>5, <1>8
<1>11. ASSUME NEW p \in Places, p[1] # pciDevices[i]
       PROVE  enabled'[p] = enabled[p] /\ address'[p] = address[p]
  <2>1. p # Here /\ p \notin taken
    BY <1>3, <1>4, <1>6, <1>11
  <2>2. enabled'[p] = enabled[p]
    BY <1>2, <1>4, <2>1
  <2>3. address'[p] = address[p]
    BY <1>3, <1>5, <2>1
  <2> QED
    BY <2>2, <2>3
<1>12. address'[Here] \in {0, FreeId}
  BY <1>3, <1>4, <1>5
<1>13. ASSUME Undisturbed(Here)
       PROVE  enabled'[Other] = enabled[Other] /\ address'[Other] = address[Other]
  <2>1. enabled'[Other] = enabled[Other]
    BY <1>2, <1>4
  <2>2. address'[Other] = address[Other]
    BY <1>3, <1>4, <1>5, <1>7, <1>13
  <2> QED
    BY <2>1, <2>2
<1> QED
  BY <1>9, <1>10, <1>11, <1>12, <1>13

\* If it is seen to succeed some device has answered.
LEMMA AddressSet ==
  ASSUME BusInv, SetAddress
  PROVE  /\ enabled' \in [Places -> BOOLEAN] /\ address' \in [Places -> 0..126]
         /\ \A p \in Places : p[1] # pciDevices[i] =>
              enabled'[p] = enabled[p] /\ address'[p] = address[p]
         /\ Undisturbed(Here) =>
              /\ enabled'[Here] /\ address'[Here] \in {0, FreeId}
              /\ enabled'[Other] = enabled[Other] /\ address'[Other] = address[Other]
         /\ failed' \in {failed, TRUE}
<1> DEFINE reset == [address EXCEPT ![Here] = 0]
<1>1. PICK again \in BOOLEAN : /\ TakeAddress(again)
                               /\ Responders(pciDevices[i], 0, enabled', reset) # {}
                               /\ failed' = (failed \/ ~again)
  BY DEF SetAddress
<1>2. pc = "check" /\ pc \in Enumerating
  BY DEF SetAddress, Enumerating
<1>3. /\ enabled' \in [Places -> BOOLEAN] /\ address' \in [Places -> 0..126]
      /\ address'[Here] \in {0, FreeId}
      /\ \A p \in Places : p[1] # pciDevices[i] =>
           enabled'[p] = enabled[p] /\ address'[p] = address[p]
      /\ Undisturbed(Here) =>
           enabled'[Other] = enabled[Other] /\ address'[Other] = address[Other]
  BY <1>1, <1>2, AddressGiven
<1>4. Other \in Places /\ Here # Other /\ address \in [Places -> 0..126] /\ failed \in BOOLEAN
  BY <1>2, HereFacts DEF BusInv, TypeOK
<1>5. reset[Other] = address[Other]
  BY <1>4
<1> HIDE DEF reset
<1>6. ASSUME Undisturbed(Here) PROVE enabled'[Here]
  <2>1. Responders(pciDevices[i], 0, enabled', reset) \subseteq {Here}
    BY <1>2, <1>3, <1>5, <1>6, ZeroAnswers
  <2>2. \A p \in Responders(pciDevices[i], 0, enabled', reset) : enabled'[p]
    BY DEF Responders
  <2> QED
    BY <1>1, <2>1, <2>2
<1>7. failed' \in {failed, TRUE}
  BY <1>1, <1>4
<1> QED
  BY <1>3, <1>6, <1>7

\* Nothing is registered; the device may have the address all the same, but no
\* device of the table has it.
LEMMA AddressFailsInv ==
  ASSUME BusInv, AddressFails
  PROVE  BusInv'
<1>1. PICK again \in BOOLEAN : TakeAddress(again)
  BY DEF AddressFails
<1>2. /\ pc = "check" /\ NextPort /\ failed' = TRUE
      /\ UNCHANGED <<bus, described, usbDevices, disks>>
  BY DEF AddressFails
<1>3. /\ enabled' \in [Places -> BOOLEAN] /\ address' \in [Places -> 0..126]
      /\ address'[Here] \in {0, FreeId}
      /\ \A p \in Places : p[1] # pciDevices[i] =>
           enabled'[p] = enabled[p] /\ address'[p] = address[p]
      /\ Undisturbed(Here) =>
           enabled'[Other] = enabled[Other] /\ address'[Other] = address[Other]
  BY <1>1, <1>2, AddressGiven
<1>4. FreeId \notin Taken
  BY <1>2, FreeIdRight
<1>5. ASSUME NEW k \in DOMAIN usbDevices, usbDevices[k].place[1] = pciDevices[i]
      PROVE  usbDevices[k].address # address'[Here]
  <2>1. usbDevices[k].address \in Taken
    BY <1>5 DEF Taken
  <2>2. usbDevices[k].address \in 1..126 /\ 0 \notin 1..126
    BY DEF BusInv, TypeOK
  <2> QED
    BY <1>3, <1>4, <2>1, <2>2
<1> QED
  BY <1>2, <1>3, <1>5, SkipPort

\* The table is full, and what is written after it is not modelled.
LEMMA SetAddressFull ==
  ASSUME BusInv, SetAddress, earlier + Len(usbDevices) = MAX_USB
  PROVE  BusInv'
<1>1. /\ TypeOK /\ ScanInv /\ RoutedInv /\ DevicesInv /\ DescriptorsInv /\ DisksInv
  BY DEF BusInv
<1>2. /\ pc = "check" /\ pc' = "undefined" /\ i' = i /\ port' = port
      /\ usbDevices' = usbDevices /\ described' = described /\ disks' = disks /\ left' = left
      /\ plugged' = plugged /\ routed' = routed /\ pciDevices' = pciDevices
      /\ booting' = booting /\ earlier' = earlier
  BY DEF SetAddress, bus
<1>3. /\ enabled' \in [Places -> BOOLEAN] /\ address' \in [Places -> 0..126]
      /\ failed' \in {failed, TRUE}
  BY AddressSet
<1>4. pc' \notin Enumerating
  BY <1>2 DEF Enumerating
<1>5. /\ \A k \in DOMAIN usbDevices : usbDevices[k].place \in Places
      /\ IsSeq(usbDevices)
  BY <1>1 DEF TypeOK, DevicesInv
<1>6. TypeOK'
  <2>1. i' \in 1..Len(Bus)+1
    BY <1>1, <1>2 DEF TypeOK
  <2>2. failed' \in BOOLEAN
    BY <1>1, <1>3 DEF TypeOK
  <2> QED
    BY <1>1, <1>2, <1>3, <2>1, <2>2 DEF TypeOK
<1>7. ScanInv'
  BY <1>1, <1>2, <1>4 DEF ScanInv
<1>8. RoutedInv'
  BY <1>1, <1>2 DEF RoutedInv
<1>9. DevicesInv'
  <2>1. \A p \in Places : Behind(p)'
    BY <1>2, <1>4 DEF Behind
  <2>2. \A q \in left' : Behind(q)'
    BY <1>1, <1>2, <2>1 DEF TypeOK
  <2> QED
    BY <1>1, <1>2, <1>5, <2>1, <2>2, TableKept
<1>10. PortsInv'
  BY <1>4 DEF PortsInv
<1>11. RegisteredInv' /\ CompleteInv'
  BY <1>2 DEF RegisteredInv, CompleteInv
<1>12. DescriptorsInv'
  <2>1. \A p \in Places : Undisturbed(p)' => Undisturbed(p)
    BY <1>2 DEF Undisturbed
  <2> QED
    BY <1>1, <1>2, <1>3, <1>5, <2>1, DescriptorsKept
<1>13. DisksInv'
  BY <1>1, <1>2, <1>5, DisksKept
<1> QED
  BY <1>6, <1>7, <1>8, <1>9, <1>10, <1>11, <1>12, <1>13 DEF BusInv

\* The device is registered at an address of its own, and every other one of
\* the table answers as before.
LEMMA SetAddressRegisters ==
  ASSUME BusInv, SetAddress, earlier + Len(usbDevices) # MAX_USB
  PROVE  BusInv'
<1>1. /\ TypeOK /\ ScanInv /\ RoutedInv /\ DevicesInv /\ PortsInv /\ RegisteredInv
      /\ DescriptorsInv /\ CompleteInv /\ DisksInv
  BY DEF BusInv
<1>0. PICK memory \in Memories :
        usbDevices' = Append(usbDevices,
          [place |-> Here, address |-> FreeId, descriptor |-> described,
           configuration |-> memory, before |-> memory, whole |-> FALSE])
  BY DEF SetAddress
<1> DEFINE n == Len(usbDevices)
           new == [place |-> Here, address |-> FreeId, descriptor |-> described,
                   configuration |-> memory, before |-> memory, whole |-> FALSE]
<1>2. /\ pc = "check" /\ pc' = "configuration" /\ i' = i /\ port' = port
      /\ usbDevices' = Append(usbDevices, new)
      /\ described' = described /\ disks' = disks /\ left' = left
      /\ plugged' = plugged /\ routed' = routed /\ pciDevices' = pciDevices
      /\ booting' = booting /\ earlier' = earlier
      /\ UNCHANGED <<bus, left>>
  BY <1>0 DEF SetAddress, bus
<1>3. /\ enabled' \in [Places -> BOOLEAN] /\ address' \in [Places -> 0..126]
      /\ \A p \in Places : p[1] # pciDevices[i] =>
           enabled'[p] = enabled[p] /\ address'[p] = address[p]
      /\ Undisturbed(Here) =>
           /\ enabled'[Here] /\ address'[Here] \in {0, FreeId}
           /\ enabled'[Other] = enabled[Other] /\ address'[Other] = address[Other]
      /\ failed' \in {failed, TRUE}
  BY AddressSet
<1>4. pc \in Enumerating /\ pc' \in Enumerating
  BY <1>2 DEF Enumerating
<1>5. /\ ScanInv' /\ RoutedInv' /\ Here' = Here /\ Other' = Other
      /\ \A p \in Places : Behind(p)' <=> Behind(p)
      /\ \A p \in Places : Undisturbed(p)' <=> Undisturbed(p)
  BY <1>1, <1>2, <1>4, SamePort
<1>6. /\ Here \in Places /\ Other \in Places /\ Other # Here /\ ~Behind(Here)
      /\ port \in {0, 1} /\ Here[1] = pciDevices[i] /\ Other[1] = pciDevices[i]
      /\ \A p \in Places : p[1] = pciDevices[i] => p = Here \/ p = Other
  BY <1>1, <1>4, HereFacts
<1>7. FreeId \in 1..126 /\ FreeId \notin Taken
  BY <1>2, FreeIdRight
<1>8. /\ IsSeq(usbDevices) /\ n \in Nat /\ DOMAIN usbDevices = 1..n
      /\ \A k \in DOMAIN usbDevices : ~Pending(k)
      /\ disks = <<>> /\ disks' = <<>> /\ DOMAIN disks' = {} /\ IsSeq(disks)'
  <2>1. IsSeq(usbDevices) /\ disks = <<>>
    BY <1>1, <1>2 DEF DevicesInv, DisksInv
  <2> QED
    BY <1>2, <2>1, SeqFacts, EmptyTable DEF Pending
<1>9. /\ new.place = Here /\ new.address = FreeId /\ new.descriptor = described
      /\ new.configuration = new.before /\ ~new.whole /\ IsDevice(new)
  BY MemoryAssumption DEF IsDevice
<1> HIDE DEF new
<1>10. /\ IsSeq(usbDevices)' /\ Len(usbDevices') = n + 1 /\ DOMAIN usbDevices' = 1..n+1
       /\ \A k \in 1..n : k # n + 1 /\ usbDevices'[k] = usbDevices[k]
       /\ usbDevices'[n + 1] = new
  BY <1>2, <1>8, Appended
<1> HIDE DEF n
<1>11. /\ \A k \in DOMAIN usbDevices' : k \in 1..n \/ k = n + 1
       /\ n + 1 \in DOMAIN usbDevices' /\ \A k \in 1..n : k \in DOMAIN usbDevices'
       /\ n + 1 > 0
  BY <1>8, <1>10
<1>12. \A k \in 1..n : /\ usbDevices[k].place \in Places /\ usbDevices[k].address \in 1..126
                       /\ usbDevices[k].descriptor \in Places
                       /\ Behind(usbDevices[k].place) /\ usbDevices[k].place # Here
                       /\ IsDevice(usbDevices[k])
  <2>1. \A k \in 1..n : /\ usbDevices[k].place \in Places /\ usbDevices[k].address \in 1..126
                         /\ usbDevices[k].descriptor \in Places
    BY <1>1, <1>8 DEF TypeOK
  <2>2. \A k \in 1..n : Behind(usbDevices[k].place) /\ IsDevice(usbDevices[k])
    BY <1>1, <1>8 DEF DevicesInv
  <2>3. ASSUME NEW k \in 1..n, usbDevices[k].place = Here PROVE FALSE
    <3>1. \A p : p = Here /\ Behind(p) => Behind(Here)
      OBVIOUS
    <3> QED
      BY <1>6, <2>2, <2>3, <3>1
  <2> QED
    BY <2>1, <2>2, <2>3
<1>13. \A k \in DOMAIN usbDevices' : Pending(k)' <=> k = n + 1
  BY <1>2, <1>10 DEF Pending
<1>14. described \in Places /\ (Undisturbed(Here) => described = Here)
       /\ Connected(Here)
  BY <1>1, <1>2, <1>4 DEF PortsInv
<1>15. Last' = new
  BY <1>10 DEF Last
<1>16. TypeOK'
  <2>1. i' \in 1..Len(Bus)+1 /\ failed' \in BOOLEAN
    BY <1>1, <1>2, <1>3 DEF TypeOK
  <2>2. earlier' + Len(usbDevices') <= MAX_USB
    <3>1. earlier + n <= MAX_USB /\ earlier + n # MAX_USB /\ MAX_USB \in Nat /\ earlier \in Nat
      BY <1>1, BusFacts DEF TypeOK, n
    <3> QED
      BY <1>2, <1>8, <1>10, <3>1
  <2>3. ASSUME NEW k \in DOMAIN usbDevices'
        PROVE  /\ usbDevices'[k].place \in Places /\ usbDevices'[k].address \in 1..126
               /\ usbDevices'[k].descriptor \in Places
    <3>1. CASE k \in 1..n
      BY <1>10, <1>12, <3>1
    <3>2. CASE k = n + 1
      BY <1>6, <1>7, <1>9, <1>10, <1>14, <3>2
    <3> QED
      BY <1>11, <3>1, <3>2
  <2> QED
    BY <1>1, <1>2, <1>3, <1>8, <2>1, <2>2, <2>3 DEF TypeOK
<1>17. DevicesInv'
  <2>1. ASSUME NEW k \in DOMAIN usbDevices'
        PROVE  IsDevice(usbDevices'[k]) /\ (Pending(k)' \/ Behind(usbDevices[k].place)')
    <3>1. CASE k \in 1..n
      <4>1. Behind(usbDevices[k].place)'
        <5>1. \A p : p = usbDevices'[k].place /\ Behind(p)' => Behind(usbDevices[k].place)'
          BY DEF Behind
        <5> QED
          BY <1>5, <1>10, <1>12, <3>1, <5>1
      <4> QED
        BY <1>10, <1>12, <3>1, <4>1
    <3>2. CASE k = n + 1
      BY <1>9, <1>10, <1>13, <3>2
    <3> QED
      BY <1>11, <3>1, <3>2
  <2>2. ASSUME NEW k \in DOMAIN usbDevices', NEW l \in DOMAIN usbDevices',
               usbDevices'[k].place = usbDevices'[l].place
        PROVE  k = l
    <3>1. \A a, b \in 1..n : usbDevices[a].place = usbDevices[b].place => a = b
      BY <1>1, <1>8 DEF DevicesInv
    <3>2. CASE k \in 1..n /\ l \in 1..n
      BY <1>10, <2>2, <3>1, <3>2
    <3>3. CASE k = n + 1 /\ l \in 1..n
      BY <1>9, <1>10, <1>12, <2>2, <3>3
    <3>4. CASE l = n + 1 /\ k \in 1..n
      BY <1>9, <1>10, <1>12, <2>2, <3>4
    <3> QED
      BY <1>11, <3>2, <3>3, <3>4
  <2>3. \A q \in left' : Behind(q)'
    BY <1>1, <1>2, <1>5 DEF TypeOK, DevicesInv
  <2>4. Len(usbDevices') > 0 /\ Last'.place = Here'
        /\ Last'.configuration = Last'.before /\ ~Last'.whole
    BY <1>5, <1>9, <1>10, <1>11, <1>15
  <2> QED
    BY <1>2, <1>10, <2>1, <2>2, <2>3, <2>4 DEF DevicesInv
<1>18. \A k \in 1..n : usbDevices[k].place[1] = pciDevices[i] =>
         /\ usbDevices[k].place = Other /\ port = 1 /\ usbDevices[k].address # FreeId
  <2>1. \A k \in 1..n : usbDevices[k].place[1] = pciDevices[i] => usbDevices[k].address \in Taken
    BY <1>8 DEF Taken
  <2> QED
    BY <1>4, <1>7, <1>8, <2>1, RegisteredHere
<1>19. PortsInv'
  <2>1. ASSUME Undisturbed(Here)
        PROVE  /\ enabled'[Here] /\ address'[Here] \in {0, FreeId}
               /\ described = Here /\ (enabled'[Other] => address'[Other] # FreeId)
    <3>1. ASSUME enabled[Other] PROVE address[Other] # FreeId
      <4>1. Other \notin left /\ port # 0
        BY <1>1, <1>2, <1>4, <2>1, <3>1, LeftHere DEF PortsInv
      <4>2. PICK k \in 1..n : usbDevices[k].place = Other /\ usbDevices[k].address = address[Other]
        BY <1>1, <1>2, <1>4, <1>6, <1>8, <3>1, <4>1 DEF PortsInv, Found
      <4> QED
        BY <1>6, <1>18, <4>2
    <3> QED
      BY <1>3, <1>14, <2>1, <3>1
  <2>2. Undisturbed(Here)' => Undisturbed(Here)
    BY <1>2, <1>5 DEF Undisturbed
  <2>3. port' = 0 => ~enabled'[Other'] /\ address'[Other'] = 0
    <3>1. port = 0 => Undisturbed(Here) /\ ~enabled[Other] /\ address[Other] = 0
      BY <1>1, <1>4, LeftHere DEF PortsInv
    <3> QED
      BY <1>2, <1>3, <1>5, <3>1
  <2>4. Connected(Here)'
    BY <1>2, <1>5, <1>14 DEF Connected
  <2>5. Undisturbed(Here)' =>
          /\ enabled'[Here'] /\ address'[Here'] \in {0, Last'.address}
          /\ Last'.descriptor = Here' /\ (enabled'[Other'] => address'[Other'] # Last'.address)
    BY <1>5, <1>9, <1>15, <2>1, <2>2
  <2> QED
    BY <1>2, <2>3, <2>4, <2>5 DEF PortsInv
<1>20. RegisteredInv'
  <2>1. ASSUME NEW k \in 1..n, Undisturbed(usbDevices[k].place), NEW q \in Places
        PROVE  /\ q[1] = usbDevices[k].place[1] /\ Connected(q) /\ enabled'[q]
               /\ address'[q] = usbDevices[k].address
               <=> q = usbDevices[k].place
    <3>1. Answers(q, k) <=> q = usbDevices[k].place
      BY <1>1, <1>2, <1>8, <2>1 DEF RegisteredInv
    <3>2. CASE q[1] # pciDevices[i]
      BY <1>3, <3>1, <3>2 DEF Answers
    <3>3. CASE q[1] = pciDevices[i] /\ usbDevices[k].place[1] # pciDevices[i]
      BY <3>3
    <3>4. CASE q[1] = pciDevices[i] /\ usbDevices[k].place[1] = pciDevices[i]
      <4>1. usbDevices[k].place = Other /\ port = 1 /\ usbDevices[k].address # FreeId
        BY <1>18, <3>4
      <4>2. Undisturbed(Here)
        <5>1. Other \notin left
          <6>1. ~(Other[2] > Other[2])
            BY <1>6, PlaceFacts
          <6> QED
            BY <2>1, <4>1, <6>1 DEF Undisturbed
        <5> QED
          BY <1>1, <1>4, <5>1, LeftHere
      <4>3. CASE q = Here
        <5>1. address'[q] \in {0, FreeId}
          BY <1>3, <4>2, <4>3
        <5>2. usbDevices[k].address \in 1..126
          BY <1>12
        <5>3. usbDevices[k].address # 0
          <6>1. 0 \notin 1..126
            OBVIOUS
          <6> QED
            BY <5>2, <6>1
        <5>4. address'[q] # usbDevices[k].address
          BY <4>1, <5>1, <5>3
        <5> QED
          BY <1>6, <4>1, <4>3, <5>4
      <4>4. CASE q = Other
        BY <1>3, <3>1, <4>2, <4>4 DEF Answers
      <4> QED
        BY <1>6, <3>4, <4>3, <4>4
    <3> QED
      BY <3>2, <3>3, <3>4
  <2>2. ASSUME NEW k \in DOMAIN usbDevices', Undisturbed(usbDevices[k].place)', ~Pending(k)',
               NEW q \in Places
        PROVE  Answers(q, k)' <=> q = usbDevices'[k].place
    <3>1. k \in 1..n /\ usbDevices'[k] = usbDevices[k]
      BY <1>10, <1>11, <1>13, <2>2
    <3>2. Undisturbed(usbDevices[k].place)
      BY <1>2, <2>2, <3>1 DEF Undisturbed
    <3>3. Answers(q, k)' <=> /\ q[1] = usbDevices[k].place[1] /\ Connected(q) /\ enabled'[q]
                             /\ address'[q] = usbDevices[k].address
      BY <1>2, <3>1 DEF Answers, Connected
    <3> QED
      BY <2>1, <3>1, <3>2, <3>3
  <2> QED
    BY <2>2 DEF RegisteredInv
<1>21. ~failed' => ~failed
  <2>1. failed' = failed \/ failed' = TRUE
    BY <1>3
  <2> QED
    BY <2>1
<1>22. DescriptorsInv'
  <2>1. ASSUME NEW k \in DOMAIN usbDevices', Undisturbed(usbDevices[k].place)', ~Pending(k)'
        PROVE  OwnDescriptors(usbDevices[k])'
    <3>1. k \in 1..n /\ usbDevices'[k] = usbDevices[k]
      BY <1>10, <1>11, <1>13, <2>1
    <3>2. Undisturbed(usbDevices[k].place)
      BY <1>2, <2>1, <3>1 DEF Undisturbed
    <3>3. OwnDescriptors(usbDevices[k])
      BY <1>1, <1>8, <3>1, <3>2 DEF DescriptorsInv
    <3>4. OwnPieces(usbDevices[k])'
      BY <1>2, <3>1, <3>3 DEF OwnDescriptors, OwnPieces
    <3> QED
      BY <1>21, <3>1, <3>3, <3>4 DEF OwnDescriptors
  <2> QED
    BY <2>1 DEF DescriptorsInv
<1>23. CompleteInv'
  <2>1. ASSUME ~failed', NEW p \in Places, Behind(p)', plugged'[p] # NoDevice, Undisturbed(p)'
        PROVE  \E k \in DOMAIN usbDevices' : usbDevices'[k].place = p
    <3>1. Behind(p) /\ Undisturbed(p) /\ ~failed
      BY <1>5, <1>21, <2>1
    <3>2. PICK k \in 1..n : usbDevices[k].place = p
      BY <1>1, <1>2, <1>8, <2>1, <3>1 DEF CompleteInv
    <3> QED
      BY <1>10, <1>11, <3>2
  <2> QED
    BY <2>1 DEF CompleteInv
<1>24. DisksInv'
  BY <1>2, <1>8 DEF DisksInv
<1> QED
  BY <1>5, <1>16, <1>17, <1>19, <1>20, <1>22, <1>23, <1>24 DEF BusInv

-----------------------------------------------------------------------------
(* The configuration descriptor *)

LEMMA PieceAt ==
  ASSUME NEW k \in Nat, k >= 1, NEW q \in Int, NEW size \in Nat, size = 1 \/ k = 1
  PROVE  (k - 1) * size + q - (k - 1) = q
<1>1. CASE size = 1
  BY <1>1
<1>2. CASE k = 1
  BY <1>2
<1> QED
  BY <1>1, <1>2

\* The buffer holds what it did before, or pieces of p's descriptor where they
\* belong.
Holds(buffer, before, p) ==
  /\ DOMAIN buffer = 1..MaxPieces
  /\ \A q \in 1..MaxPieces : buffer[q] \in {before[q], [of |-> p, piece |-> q]}

\* The pieces that n packets hold.
Sent(q, size, total, n) == (size = 1 /\ q <= n) \/ (n = 1 /\ q <= total /\ total <= size)

Fills(buffer, p, size, total, n) ==
  \A q \in 1..MaxPieces : Sent(q, size, total, n) => buffer[q] = [of |-> p, piece |-> q]

\* The transaction of a device whose packets are stored as they come: each
\* piece is where it belongs.
LEMMA StoredRight ==
  ASSUME NEW p \in Places, NEW size \in Nat, NEW total \in Nat, plugged[p].total = total,
         size >= 1, total >= 1,
         NEW buffer, NEW before, Holds(buffer, before, p),
         NEW n \in Nat, (size = 1 /\ n <= total) \/ (total <= size /\ n <= 1),
         NEW b, b = Stored(buffer, p, size, n)
  PROVE  Holds(b, before, p) /\ Fills(b, p, size, total, n)
<1> DEFINE covers(k, q) == q - BufferOffset(k) \in 1..Lesser(size, plugged[p].total - (k - 1) * size)
           packets(q) == {k \in 1..n : covers(k, q)}
           last(q) == CHOOSE k \in packets(q) : \A other \in packets(q) : other <= k
<1>1. b = [q \in 1..MaxPieces |->
             IF packets(q) = {} THEN buffer[q]
             ELSE [of |-> p, piece |-> (last(q) - 1) * size + q - BufferOffset(last(q))]]
  BY DEF Stored, Holds
<1>2. ASSUME NEW q \in 1..MaxPieces, NEW k \in packets(q)
      PROVE  k \in Nat /\ k >= 1 /\ k <= n /\ k = IF size = 1 THEN q ELSE 1
  <2>1. k \in 1..n /\ covers(k, q)
    OBVIOUS
  <2>2. k \in Nat /\ k >= 1 /\ k <= n /\ q \in Int
    BY <2>1 DEF MaxPieces
  <2>3. CASE size = 1
    <3>1. (k - 1) * size = k - 1
      BY <2>2, <2>3
    <3>2. k <= total
      BY <2>2, <2>3
    <3>3. total - (k - 1) >= 1 /\ total - (k - 1) \in Int
      BY <2>2, <3>2
    <3>4. Lesser(size, total - (k - 1)) = 1
      BY <2>3, <3>3 DEF Lesser
    <3>5. q - (k - 1) \in 1..1
      BY <2>1, <3>1, <3>4 DEF BufferOffset
    <3> QED
      BY <2>2, <2>3, <3>5
  <2>4. CASE size # 1
    <3>1. n <= 1
      BY <2>4
    <3> QED
      BY <2>2, <2>4, <3>1
  <2> QED
    BY <2>3, <2>4
<1>3. ASSUME NEW q \in 1..MaxPieces, packets(q) # {}
      PROVE  last(q) \in packets(q)
  <2>1. PICK k \in packets(q) : TRUE
    BY <1>3
  <2>2. \A other \in packets(q) : other = k /\ other \in Nat
    BY <1>2, <2>1
  <2> HIDE DEF packets
  <2>3. \A other \in packets(q) : other <= k
    BY <2>1, <2>2
  <2> QED
    BY <2>1, <2>3
<1>4. ASSUME NEW q \in 1..MaxPieces, packets(q) # {}
      PROVE  b[q] = [of |-> p, piece |-> q]
  <2> DEFINE l == last(q)
  <2>1. l \in packets(q)
    BY <1>3, <1>4
  <2>2. l \in Nat /\ l >= 1 /\ l <= n
    BY <1>2, <2>1
  <2>3. size = 1 \/ l = 1
    BY <1>2, <2>1
  <2>4. b[q] = [of |-> p, piece |-> (l - 1) * size + q - BufferOffset(l)]
    BY <1>1, <1>4
  <2> HIDE DEF l
  <2>5. BufferOffset(l) = l - 1 /\ q \in Int
    BY DEF BufferOffset, MaxPieces
  <2>6. (l - 1) * size + q - (l - 1) = q
    BY <2>2, <2>3, <2>5, PieceAt
  <2> QED
    BY <2>4, <2>5, <2>6
<1>5. ASSUME NEW q \in 1..MaxPieces, packets(q) = {}
      PROVE  b[q] = buffer[q]
  BY <1>1, <1>5
<1>6. ASSUME NEW q \in 1..MaxPieces,
             (size = 1 /\ q <= n) \/ (n = 1 /\ q <= total /\ total <= size)
      PROVE  packets(q) # {}
  <2>1. q \in Nat /\ q >= 1
    BY DEF MaxPieces
  <2>2. CASE size = 1 /\ q <= n
    <3>1. q \in 1..n /\ q <= total
      BY <2>1, <2>2
    <3>2. (q - 1) * size = q - 1 /\ total - (q - 1) >= 1 /\ q - (q - 1) = 1
          /\ total - (q - 1) \in Int
      BY <2>1, <2>2, <3>1
    <3>3. Lesser(size, total - (q - 1)) = 1 /\ 1 \in 1..1
      BY <2>2, <3>2 DEF Lesser
    <3>4. covers(q, q)
      BY <3>2, <3>3 DEF BufferOffset
    <3> QED
      BY <3>1, <3>4
  <2>3. CASE n = 1 /\ q <= total /\ total <= size
    <3>1. (1 - 1) * size = 0 /\ total - 0 = total /\ q - (1 - 1) = q /\ 1 \in 1..n
      BY <2>1, <2>3
    <3>2. q \in 1..Lesser(size, total)
      BY <2>1, <2>3 DEF Lesser
    <3>3. covers(1, q)
      BY <3>1, <3>2 DEF BufferOffset
    <3> QED
      BY <3>1, <3>3
  <2> QED
    BY <1>6, <2>2, <2>3
<1>7. DOMAIN b = 1..MaxPieces
  BY <1>1
<1> HIDE DEF packets, last
<1>8. \A q \in 1..MaxPieces : b[q] \in {before[q], [of |-> p, piece |-> q]}
  BY <1>4, <1>5 DEF Holds
<1>9. \A q \in 1..MaxPieces :
        (size = 1 /\ q <= n) \/ (n = 1 /\ q <= total /\ total <= size) =>
          b[q] = [of |-> p, piece |-> q]
  BY <1>4, <1>6
<1> QED
  BY <1>7, <1>8, <1>9 DEF Holds, Fills, Sent

\* The port's turn ends with its device registered.
LEMMA RegistrationEnds ==
  ASSUME BusInv, pc = "configuration", NextPort, UNCHANGED <<bus, ports, described, disks>>,
         IsSeq(usbDevices)', Len(usbDevices') = Len(usbDevices),
         DOMAIN usbDevices' = DOMAIN usbDevices,
         \A k \in DOMAIN usbDevices : k # Len(usbDevices) => usbDevices'[k] = usbDevices[k],
         NEW d, usbDevices'[Len(usbDevices)] = d, IsDevice(d),
         d.place = Last.place, d.address = Last.address, d.descriptor = Last.descriptor,
         failed' \in {failed, TRUE}, ~failed' => d.whole,
         Undisturbed(Here) => d.descriptor = d.place /\ OwnPieces(d)
  PROVE  BusInv'
<1>1. /\ TypeOK /\ ScanInv /\ RoutedInv /\ DevicesInv /\ PortsInv /\ RegisteredInv
      /\ DescriptorsInv /\ CompleteInv /\ DisksInv
  BY DEF BusInv
<1> DEFINE n == Len(usbDevices)
<1>2. pc \in Enumerating /\ pc # "undefined" /\ pc \notin {"storage", "done"}
  BY DEF Enumerating
<1>3. /\ pc' \in {"port", "uhci", "storage", "done"} /\ ScanInv' /\ RoutedInv'
      /\ i' \in 1..Len(Bus)+1 /\ port' \in {0, 1}
      /\ pc' = "storage" => i' = 1
      /\ pc' = "done" /\ booting => usbDevices = <<>>
      /\ \A p \in Places : Behind(p)' <=> Behind(p) \/ p = Here
  BY <1>1, <1>2, PortMoves
<1>4. /\ Here \in Places /\ Other \in Places /\ Other # Here
      /\ Here[1] = pciDevices[i] /\ port \in {0, 1}
      /\ \A p \in Places : p[1] = pciDevices[i] => p = Here \/ p = Other
  BY <1>1, <1>2, HereFacts
<1>5. /\ left' \subseteq Places
      /\ enabled'[Here] /\ Here \notin left' =>
           \E k \in DOMAIN usbDevices' : /\ usbDevices'[k].place = Here
                                         /\ usbDevices'[k].address = address'[Here]
      /\ \A q \in left' : Behind(q)'
      /\ \A p \in Places : Undisturbed(p)' => Undisturbed(p) /\ p \notin left'
  BY <1>1, <1>2, LeftMoves
<1>6. /\ plugged' = plugged /\ routed' = routed /\ disks' = disks /\ enabled' = enabled
      /\ address' = address /\ described' = described /\ pciDevices' = pciDevices
      /\ booting' = booting /\ earlier' = earlier
  BY DEF bus, ports
<1>7. /\ n \in Nat /\ n > 0 /\ DOMAIN usbDevices = 1..n /\ n \in DOMAIN usbDevices
      /\ Last = usbDevices[n] /\ Last.place = Here /\ d.place = Here
      /\ \A k \in DOMAIN usbDevices : Pending(k) <=> k = n
  <2>1. IsSeq(usbDevices) /\ n > 0 /\ Last.place = Here
    BY <1>1 DEF DevicesInv
  <2>2. n \in Nat /\ DOMAIN usbDevices = 1..n
    BY <2>1, SeqFacts
  <2>3. n \in 1..n
    BY <2>1, <2>2
  <2> QED
    BY <2>1, <2>2, <2>3 DEF Last, Pending
<1>8. \A k \in DOMAIN usbDevices : /\ usbDevices[k].place \in Places
                                   /\ usbDevices[k].address \in 1..126
                                   /\ usbDevices[k].descriptor \in Places
                                   /\ IsDevice(usbDevices[k])
  BY <1>1 DEF TypeOK, DevicesInv
<1>9. ASSUME NEW k \in DOMAIN usbDevices
      PROVE  /\ usbDevices'[k].place = usbDevices[k].place
             /\ usbDevices'[k].address = usbDevices[k].address
             /\ usbDevices'[k].descriptor = usbDevices[k].descriptor
             /\ IsDevice(usbDevices'[k])
  <2>1. CASE k = n
    BY <1>7, <2>1
  <2>2. CASE k # n
    BY <1>8, <2>2
  <2> QED
    BY <2>1, <2>2
<1>10. disks = <<>> /\ DOMAIN disks' = {} /\ IsSeq(disks)'
  <2>1. disks = <<>>
    BY <1>1, <1>2 DEF DisksInv
  <2> QED
    BY <1>6, <2>1, EmptyTable
<1>11. ~(pc' = "done" /\ booting)
  BY <1>3, <1>7, EmptyTable
<1> HIDE DEF n
<1>12. TypeOK'
  <2>1. earlier' \in Nat /\ booting' \in BOOLEAN /\ earlier' + Len(usbDevices') <= MAX_USB
    BY <1>1, <1>6 DEF TypeOK
  <2>2. \A k \in DOMAIN usbDevices' : /\ usbDevices'[k].place \in Places
                                      /\ usbDevices'[k].address \in 1..126
                                      /\ usbDevices'[k].descriptor \in Places
    BY <1>8, <1>9
  <2>3. failed' \in BOOLEAN
    BY <1>1 DEF TypeOK
  <2> QED
    BY <1>1, <1>3, <1>5, <1>6, <1>10, <2>1, <2>2, <2>3 DEF TypeOK
<1>13. \A k \in DOMAIN usbDevices' : ~Pending(k)'
  BY <1>3 DEF Pending
<1>14. DevicesInv'
  <2>1. ASSUME NEW k \in DOMAIN usbDevices' PROVE Behind(usbDevices[k].place)'
    <3>1. k \in DOMAIN usbDevices /\ usbDevices[k].place \in Places
      BY <1>8, <2>1
    <3>2. Behind(usbDevices[k].place) \/ usbDevices[k].place = Here
      BY <1>1, <1>7, <3>1 DEF DevicesInv
    <3>3. \A p : p = usbDevices'[k].place /\ Behind(p)' => Behind(usbDevices[k].place)'
      BY DEF Behind
    <3> QED
      BY <1>3, <1>9, <3>1, <3>2, <3>3
  <2>2. \A k \in DOMAIN usbDevices' : IsDevice(usbDevices'[k])
    BY <1>9
  <2>3. \A k, l \in DOMAIN usbDevices' : usbDevices'[k].place = usbDevices'[l].place => k = l
    <3>1. \A k, l \in DOMAIN usbDevices : usbDevices[k].place = usbDevices[l].place => k = l
      BY <1>1 DEF DevicesInv
    <3> QED
      BY <1>9, <3>1
  <2>4. pc' = "storage" => i' \in DOMAIN usbDevices'
    BY <1>3, <1>7
  <2> QED
    BY <1>3, <1>5, <2>1, <2>2, <2>3, <2>4 DEF DevicesInv
<1>15. PortsInv'
  <2>1. enabled'[Other] = enabled[Other] /\ address'[Other] = address[Other]
    BY <1>6
  <2> QED
    BY <1>1, <1>2, <2>1, PortsAfter
<1>16. RegisteredInv'
  <2>1. ASSUME NEW k \in DOMAIN usbDevices, Undisturbed(usbDevices[k].place),
               usbDevices[k].place \notin left', NEW q \in Places
        PROVE  Answers(q, k) <=> q = usbDevices[k].place
    <3>1. CASE k # n
      BY <1>1, <1>2, <1>7, <2>1, <3>1 DEF RegisteredInv
    <3>2. CASE k = n
      <4>1. usbDevices[k] = Last /\ usbDevices[k].place = Here
        BY <1>7, <3>2
      <4>2. /\ enabled[Here] /\ address[Here] \in {0, Last.address}
            /\ (enabled[Other] => address[Other] # Last.address) /\ Connected(Here)
        BY <1>1, <1>2, <2>1, <4>1 DEF PortsInv
      <4>3. address[Here] = Last.address
        <5>1. PICK l \in DOMAIN usbDevices : usbDevices[l].address = address[Here]
          BY <1>5, <1>6, <1>9, <2>1, <4>1, <4>2
        <5>2. 0 \notin 1..126
          OBVIOUS
        <5> QED
          BY <1>8, <4>2, <5>1, <5>2
      <4>4. CASE q = Here
        BY <4>1, <4>2, <4>3, <4>4 DEF Answers
      <4>5. CASE q # Here
        <5>1. ~Answers(q, k)
          BY <1>4, <4>1, <4>2, <4>5 DEF Answers
        <5> QED
          BY <4>1, <4>5, <5>1
      <4> QED
        BY <4>4, <4>5
    <3> QED
      BY <3>1, <3>2
  <2>2. ASSUME NEW k \in DOMAIN usbDevices', Undisturbed(usbDevices[k].place)', NEW q \in Places
        PROVE  Answers(q, k)' <=> q = usbDevices'[k].place
    <3>1. k \in DOMAIN usbDevices /\ usbDevices'[k].place = usbDevices[k].place
          /\ usbDevices'[k].address = usbDevices[k].address
          /\ usbDevices[k].place \in Places
      BY <1>8, <1>9, <2>2
    <3>2. \A p : p = usbDevices'[k].place /\ Undisturbed(usbDevices[k].place)' => Undisturbed(p)'
      BY DEF Undisturbed
    <3>3. Undisturbed(usbDevices[k].place) /\ usbDevices[k].place \notin left'
      BY <1>5, <2>2, <3>1, <3>2
    <3>4. Answers(q, k)' <=> Answers(q, k)
      BY <1>6, <3>1 DEF Answers, Connected
    <3> QED
      BY <2>1, <3>1, <3>3, <3>4
  <2> QED
    BY <2>2 DEF RegisteredInv
<1>17. ~failed' => ~failed
  <2>1. failed' = failed \/ failed' = TRUE
    OBVIOUS
  <2> QED
    BY <2>1
<1>18. DescriptorsInv'
  <2>1. ASSUME NEW k \in DOMAIN usbDevices', Undisturbed(usbDevices[k].place)'
        PROVE  OwnDescriptors(usbDevices[k])'
    <3>1. k \in DOMAIN usbDevices /\ usbDevices'[k].place = usbDevices[k].place
          /\ usbDevices[k].place \in Places
      BY <1>8, <1>9, <2>1
    <3>2. \A p : p = usbDevices'[k].place /\ Undisturbed(usbDevices[k].place)' => Undisturbed(p)'
      BY DEF Undisturbed
    <3>3. Undisturbed(usbDevices[k].place)
      BY <1>5, <2>1, <3>1, <3>2
    <3>4. CASE k = n
      <4>1. usbDevices'[k] = d /\ d.descriptor = d.place /\ OwnPieces(d)
        BY <1>7, <3>1, <3>3, <3>4 DEF n
      <4>2. OwnPieces(usbDevices[k])'
        BY <1>6, <4>1 DEF OwnPieces
      <4> QED
        BY <4>1, <4>2 DEF OwnDescriptors
    <3>5. CASE k # n
      <4>1. OwnDescriptors(usbDevices[k]) /\ usbDevices'[k] = usbDevices[k]
        BY <1>1, <1>7, <3>1, <3>3, <3>5 DEF DescriptorsInv, n
      <4>2. OwnPieces(usbDevices[k])'
        BY <1>6, <4>1 DEF OwnDescriptors, OwnPieces
      <4> QED
        BY <1>17, <4>1, <4>2 DEF OwnDescriptors
    <3> QED
      BY <3>4, <3>5
  <2> QED
    BY <2>1 DEF DescriptorsInv
<1>19. CompleteInv'
  <2>1. ASSUME ~failed', NEW p \in Places, Behind(p)', plugged'[p] # NoDevice, Undisturbed(p)'
        PROVE  \E k \in DOMAIN usbDevices' : usbDevices'[k].place = p
    <3>1. CASE p = Here
      BY <1>7, <1>9, <3>1
    <3>2. CASE p # Here
      <4>1. Behind(p) /\ Undisturbed(p) /\ ~failed
        BY <1>3, <1>5, <1>17, <2>1, <3>2
      <4>2. PICK k \in DOMAIN usbDevices : usbDevices[k].place = p
        BY <1>1, <1>2, <1>6, <2>1, <4>1 DEF CompleteInv
      <4> QED
        BY <1>9, <4>2
    <3> QED
      BY <3>1, <3>2
  <2> QED
    BY <2>1 DEF CompleteInv
<1>20. DisksInv'
  <2>1. pc' = "storage" => \A k \in DOMAIN usbDevices' : ~(k < i')
    BY <1>3, <1>7
  <2> QED
    BY <1>6, <1>10, <1>11, <2>1 DEF DisksInv
<1> QED
  BY <1>3, <1>12, <1>14, <1>15, <1>16, <1>18, <1>19, <1>20 DEF BusInv

\* What is known of a device that is plugged in.
LEMMA KindFacts ==
  ASSUME TypeOK, NEW p \in Places, plugged[p] # NoDevice
  PROVE  IsKind(plugged[p])
BY BusAssumption DEF TypeOK

\* The only device at the address given is the one registered there.
LEMMA LastAnswers ==
  ASSUME BusInv, pc = "configuration", Undisturbed(Here),
         NEW p \in Responders(pciDevices[i], Last.address, enabled, address)
  PROVE  p = Here
<1>1. pc \in Enumerating
  BY DEF Enumerating
<1>2. p \in Places /\ p[1] = pciDevices[i] /\ enabled[p] /\ address[p] = Last.address
  BY DEF Responders
<1>3. p = Here \/ p = Other
  BY <1>1, <1>2, HereFacts DEF BusInv
<1>4. enabled[Other] => address[Other] # Last.address
  BY <1>1 DEF BusInv, PortsInv
<1> QED
  BY <1>2, <1>3, <1>4

\* The entry of a device whose configuration was read.
LEMMA EntryRead ==
  ASSUME NEW r, IsDevice(r), NEW read, NEW all
  PROVE  [r EXCEPT !.configuration = read, !.whole = all]
           = [place |-> r.place, address |-> r.address, descriptor |-> r.descriptor,
              configuration |-> read, before |-> r.before, whole |-> all]
<1> DEFINE s == [r EXCEPT !.configuration = read]
<1>1. r = [place |-> r.place, address |-> r.address, descriptor |-> r.descriptor,
           configuration |-> r.configuration, before |-> r.before, whole |-> r.whole]
  BY DEF IsDevice
<1>2. s = [place |-> r.place, address |-> r.address, descriptor |-> r.descriptor,
           configuration |-> read, before |-> r.before, whole |-> r.whole]
  BY <1>1
<1>3. [r EXCEPT !.configuration = read, !.whole = all] = [s EXCEPT !.whole = all]
  OBVIOUS
<1> HIDE DEF s
<1> QED
  BY <1>2, <1>3

LEMMA ReadConfigurationInv ==
  ASSUME BusInv, ReadConfiguration
  PROVE  BusInv'
<1>1. /\ pc = "configuration" /\ NextPort /\ UNCHANGED <<bus, ports, described, disks>>
  BY DEF ReadConfiguration
<1>2. pc \in Enumerating /\ TypeOK /\ DevicesInv /\ PortsInv /\ ScanInv
  BY <1>1 DEF Enumerating, BusInv
<1> DEFINE n == Len(usbDevices)
<1>3. /\ IsSeq(usbDevices) /\ n \in DOMAIN usbDevices /\ Last = usbDevices[n]
      /\ Last.place = Here /\ IsDevice(Last)
      /\ Last.configuration = Last.before
      /\ Here \in Places
  <2>1. IsSeq(usbDevices) /\ n > 0 /\ Last.place = Here
        /\ Last.configuration = Last.before
    BY <1>1, <1>2 DEF DevicesInv
  <2>2. n \in Nat /\ DOMAIN usbDevices = 1..n
    BY <2>1, SeqFacts
  <2>3. n \in 1..n
    BY <2>1, <2>2
  <2> QED
    BY <1>2, <2>1, <2>2, <2>3, HereFacts DEF Last, DevicesInv
<1>4. ~Last.whole
  BY <1>1, <1>2 DEF DevicesInv
<1>5. Undisturbed(Here) => Last.descriptor = Here
  BY <1>1, <1>2 DEF PortsInv
<1>6. CASE UNCHANGED usbDevices /\ failed' = TRUE
  <2>1. /\ IsSeq(usbDevices)' /\ Len(usbDevices') = Len(usbDevices)
        /\ DOMAIN usbDevices' = DOMAIN usbDevices
        /\ usbDevices'[Len(usbDevices)] = Last
        /\ \A k \in DOMAIN usbDevices : k # Len(usbDevices) => usbDevices'[k] = usbDevices[k]
    BY <1>3, <1>6
  <2>2. failed' \in {failed, TRUE} /\ failed'
    BY <1>6
  <2>3. Undisturbed(Here) => Last.descriptor = Last.place /\ OwnPieces(Last)
    BY <1>3, <1>4, <1>5 DEF OwnPieces
  <2> HIDE DEF n
  <2> QED
    BY <1>1, <1>3, <2>1, <2>2, <2>3, RegistrationEnds
<1>7. ASSUME NEW p \in Responders(pciDevices[i], Last.address, enabled, address),
             NEW m \in IF plugged[p].total <= plugged[p].packet THEN {1}
                       ELSE 0..PacketsFor(plugged[p].total, plugged[p].packet),
             usbDevices' = [usbDevices EXCEPT
               ![Len(usbDevices)].configuration =
                 Stored(Stored(Last.configuration, p, plugged[p].packet, 1),
                        p, plugged[p].packet, m),
               ![Len(usbDevices)].whole = ~(m < PacketsFor(plugged[p].total, plugged[p].packet))],
             failed' \in IF m < PacketsFor(plugged[p].total, plugged[p].packet)
                         THEN {TRUE} ELSE {failed, TRUE}
      PROVE  BusInv'
  <2> DEFINE kind == plugged[p]
             first == Stored(Last.configuration, p, kind.packet, 1)
             rest == PacketsFor(kind.total, kind.packet)
             read == Stored(first, p, kind.packet, m)
             d == [place |-> Last.place, address |-> Last.address, descriptor |-> Last.descriptor,
                   configuration |-> read, before |-> Last.before, whole |-> ~(m < rest)]
  <2>1. p \in Places /\ plugged[p] # NoDevice
    BY DEF Responders, Connected
  <2>2. IsKind(kind)
    BY <1>2, <1>7, <2>1, KindFacts
  <2>3. /\ kind.packet \in Nat /\ kind.packet >= 1 /\ kind.total \in Nat /\ kind.total >= 1
    BY <2>2 DEF IsKind
  <2>4. DOMAIN read = 1..MaxPieces
    <3>1. \A buffer, size, k : DOMAIN Stored(buffer, p, size, k) = DOMAIN buffer
      BY DEF Stored
    <3>2. DOMAIN Last.configuration = 1..MaxPieces
      BY <1>3 DEF IsDevice
    <3> QED
      BY <3>1, <3>2
  <2>5. usbDevices' = [usbDevices EXCEPT ![n] = d]
    <3>1. usbDevices' = [usbDevices EXCEPT ![n] =
                           [usbDevices[n] EXCEPT !.configuration = read, !.whole = ~(m < rest)]]
      BY <1>7
    <3>2. usbDevices[n] = Last /\ IsDevice(Last)
      BY <1>3
    <3> HIDE DEF read, rest, n
    <3>3. [Last EXCEPT !.configuration = read, !.whole = ~(m < rest)] = d
      <4> DEFINE all == ~(m < rest)
      <4>1. d = [place |-> Last.place, address |-> Last.address,
                 descriptor |-> Last.descriptor, configuration |-> read,
                 before |-> Last.before, whole |-> all]
        OBVIOUS
      <4> HIDE DEF d, all
      <4>2. [Last EXCEPT !.configuration = read, !.whole = all]
              = [place |-> Last.place, address |-> Last.address,
                 descriptor |-> Last.descriptor, configuration |-> read,
                 before |-> Last.before, whole |-> all]
        BY <3>2, EntryRead
      <4> QED
        BY <4>1, <4>2 DEF all
    <3> QED
      BY <3>1, <3>2, <3>3
  <2>6. /\ d.place = Last.place /\ d.address = Last.address /\ d.descriptor = Last.descriptor
        /\ d.configuration = read /\ d.before = Last.before /\ (d.whole <=> ~(m < rest))
        /\ IsDevice(d)
    BY <2>4 DEF IsDevice
  <2>7. failed' \in {failed, TRUE} /\ (~failed' => ~(m < rest))
    BY <1>7
  <2>8. ASSUME Undisturbed(Here), Fits(plugged[Here]), NEW q \in 1..MaxPieces
        PROVE  /\ read[q] \in {Last.before[q], [of |-> Here, piece |-> q]}
               /\ ~(m < rest) /\ q <= plugged[Here].total => read[q] = [of |-> Here, piece |-> q]
    <3> DEFINE size == kind.packet
               total == kind.total
    <3>1. p = Here /\ kind = plugged[Here]
      BY <1>1, <1>7, <2>8, LastAnswers
    <3>2. /\ size \in Nat /\ size >= 1 /\ total \in Nat /\ total >= 1
          /\ size = 1 \/ total <= size
          /\ plugged[p].total = total
      BY <1>7, <2>3, <2>8, <3>1 DEF Fits
    <3>3. /\ m \in Nat
          /\ (size = 1 /\ m <= total) \/ (total <= size /\ m <= 1)
          /\ ~(m < rest) => (size = 1 /\ m = total) \/ (total <= size /\ m = 1)
      <4>1. rest = (total + size - 1) \div size
        BY <1>7 DEF PacketsFor
      <4>2. size = 1 => rest = total
        BY <3>2, <4>1
      <4>3. total <= size => m = 1
        BY <1>7
      <4>4. ~(total <= size) => m \in 0..rest
        BY <1>7
      <4> HIDE DEF size, total
      <4> QED
        BY <3>2, <4>2, <4>3, <4>4
    <3>4. Holds(Last.configuration, Last.before, p)
      BY <1>3 DEF Holds, IsDevice
    <3>5. first = Stored(Last.configuration, p, size, 1) /\ read = Stored(first, p, size, m)
      BY <1>7
    <3> HIDE DEF size, total, read, first, rest, kind
    <3>6. (size = 1 /\ 1 <= total) \/ (total <= size /\ 1 <= 1)
      BY <3>2
    <3>7. Holds(first, Last.before, p)
      BY <2>1, <3>2, <3>4, <3>5, <3>6, StoredRight
    <3>8. Holds(read, Last.before, p) /\ Fills(read, p, size, total, m)
      BY <2>1, <3>2, <3>3, <3>5, <3>7, StoredRight
    <3>9. ASSUME ~(m < rest), q <= total PROVE read[q] = [of |-> p, piece |-> q]
      BY <3>3, <3>8, <3>9 DEF Fills, Sent
    <3>10. read[q] \in {Last.before[q], [of |-> p, piece |-> q]}
      BY <3>8 DEF Holds
    <3> QED
      BY <3>1, <3>2, <3>9, <3>10
  <2> HIDE DEF d, read, rest, n
  <2>9. /\ IsSeq(usbDevices)' /\ Len(usbDevices') = Len(usbDevices)
        /\ DOMAIN usbDevices' = DOMAIN usbDevices
        /\ \A k \in DOMAIN usbDevices : k # n => usbDevices'[k] = usbDevices[k]
        /\ usbDevices'[n] = d
    <3> DEFINE S == {usbDevices[k] : k \in DOMAIN usbDevices}
               T == S \cup {d}
    <3>1. usbDevices \in Seq(T)
      BY <1>3, SeqFacts DEF IsSeq
    <3> HIDE DEF S, T
    <3>2. d \in T
      BY DEF T
    <3>3. usbDevices' \in Seq(T) /\ Len(usbDevices') = Len(usbDevices)
      BY <1>3, <2>5, <3>1, <3>2
    <3>4. /\ DOMAIN usbDevices' = DOMAIN usbDevices
          /\ \A k \in DOMAIN usbDevices : k # n => usbDevices'[k] = usbDevices[k]
          /\ usbDevices'[n] = d
      BY <1>3, <2>5, <3>1
    <3>5. IsSeq(usbDevices')
      BY <3>3, MakeSeq
    <3> QED
      BY <3>3, <3>4, <3>5
  <2>10. Undisturbed(Here) => d.descriptor = d.place /\ OwnPieces(d)
    BY <1>3, <1>5, <2>6, <2>8 DEF OwnPieces
  <2> QED
    BY <1>1, <2>6, <2>7, <2>9, <2>10, RegistrationEnds DEF n
<1>8. \/ UNCHANGED usbDevices /\ failed' = TRUE
      \/ \E p \in Responders(pciDevices[i], Last.address, enabled, address) :
           \E m \in IF plugged[p].total <= plugged[p].packet THEN {1}
                    ELSE 0..PacketsFor(plugged[p].total, plugged[p].packet) :
             /\ usbDevices' = [usbDevices EXCEPT
                  ![Len(usbDevices)].configuration =
                    Stored(Stored(Last.configuration, p, plugged[p].packet, 1),
                           p, plugged[p].packet, m),
                  ![Len(usbDevices)].whole = ~(m < PacketsFor(plugged[p].total, plugged[p].packet))]
             /\ failed' \in IF m < PacketsFor(plugged[p].total, plugged[p].packet)
                            THEN {TRUE} ELSE {failed, TRUE}
  BY DEF ReadConfiguration
<1> QED
  BY <1>6, <1>7, <1>8

-----------------------------------------------------------------------------
(* The disks *)

\* One device of the table has been looked at.
LEMMA StorageStep ==
  ASSUME BusInv, pc = "storage", Step(Len(usbDevices), "storage", "done"),
         UNCHANGED <<port, bus, ports, described, usbDevices, left>>,
         failed' \in {failed, TRUE}, IsSeq(disks)',
         \A k \in DOMAIN disks' :
           /\ disks'[k].device \in DOMAIN usbDevices /\ disks'[k].units \in 1..16
           /\ disks'[k].device <= i
           /\ IsDisk(usbDevices[disks'[k].device])
           /\ ~failed' /\ Undisturbed(usbDevices[disks'[k].device].place) =>
                disks'[k].units = Units(plugged[usbDevices[disks'[k].device].place]),
         \A k, l \in DOMAIN disks' : disks'[k].device = disks'[l].device => k = l,
         \A k \in DOMAIN disks : \E l \in DOMAIN disks' : disks'[l].device = disks[k].device,
         IsDisk(usbDevices[i]) => \E k \in DOMAIN disks' : disks'[k].device = i
  PROVE  BusInv'
<1>1. /\ TypeOK /\ ScanInv /\ RoutedInv /\ DevicesInv /\ RegisteredInv
      /\ DescriptorsInv /\ CompleteInv /\ DisksInv
  BY DEF BusInv
<1>2. /\ plugged' = plugged /\ routed' = routed /\ enabled' = enabled /\ left' = left
      /\ address' = address /\ described' = described /\ pciDevices' = pciDevices
      /\ port' = port /\ usbDevices' = usbDevices
      /\ booting' = booting /\ earlier' = earlier
  BY DEF bus, ports
<1>3. /\ IsSeq(usbDevices) /\ Len(usbDevices) \in Nat /\ DOMAIN usbDevices = 1..Len(usbDevices)
      /\ i \in 1..Len(usbDevices)
      /\ \A k \in DOMAIN usbDevices : usbDevices[k].place \in Places
  <2>1. IsSeq(usbDevices) /\ i \in DOMAIN usbDevices
    BY <1>1 DEF DevicesInv
  <2> QED
    BY <1>1, <2>1, SeqFacts DEF TypeOK
<1>4. \/ i < Len(usbDevices) /\ i' = i + 1 /\ pc' = "storage"
      \/ i = Len(usbDevices) /\ i' = 1 /\ pc' = "done"
  <2>1. i < Len(usbDevices) \/ i = Len(usbDevices)
    BY <1>3, LastOrNot
  <2>2. i = Len(usbDevices) => ~(i < Len(usbDevices))
    BY <1>3
  <2> QED
    BY <2>1, <2>2 DEF Step
<1>5. /\ pc' \in {"storage", "done"} /\ pc' \notin Enumerating
      /\ pc' \notin {"scan", "ehci", "uhci", "configuration", "undefined"}
      /\ pc' = "storage" => i' \in DOMAIN usbDevices
  <2>1. pc' \in {"storage", "done"}
    BY <1>4
  <2>2. pc' = "storage" => i' = i + 1 /\ i + 1 \in 1..Len(usbDevices)
    BY <1>3, <1>4
  <2> QED
    BY <1>3, <2>1, <2>2 DEF Enumerating
<1>6. ScanInv'
  BY <1>1, <1>2, <1>5 DEF ScanInv
<1>7. RoutedInv'
  BY <1>1, <1>2, <1>5 DEF RoutedInv
<1>8. \A p \in Places : Behind(p) /\ Behind(p)'
  BY <1>5 DEF Behind, Enumerating
<1>9. DevicesInv'
  <2>1. \A q \in left' : Behind(q)'
    BY <1>1, <1>2, <1>8 DEF TypeOK
  <2> QED
    BY <1>1, <1>2, <1>3, <1>5, <1>8, <2>1, TableKept
<1>10. PortsInv'
  BY <1>5 DEF PortsInv
<1>11. \A p \in Places : Undisturbed(p)' => Undisturbed(p)
  BY <1>2 DEF Undisturbed
<1>12. RegisteredInv'
  <2>1. \A k \in DOMAIN usbDevices : \A q \in Places : Answers(q, k)' <=> Answers(q, k)
    BY <1>2 DEF Answers, Connected
  <2> QED
    BY <1>1, <1>2, <1>3, <1>11, <2>1, RegisteredKept
<1>13. DescriptorsInv'
  BY <1>1, <1>2, <1>3, <1>11, DescriptorsKept
<1>14. CompleteInv'
  <2>1. ASSUME ~failed', NEW p \in Places, plugged'[p] # NoDevice, Undisturbed(p)'
        PROVE  \E k \in DOMAIN usbDevices' : usbDevices'[k].place = p
    <3>1. failed' = failed \/ failed' = TRUE
      OBVIOUS
    <3>2. ~failed
      BY <2>1, <3>1
    <3> QED
      BY <1>1, <1>2, <1>8, <1>11, <2>1, <3>2 DEF CompleteInv
  <2> QED
    BY <2>1 DEF CompleteInv
<1>15. TypeOK'
  <2>1. i' \in 1..Len(Bus)+1 \/ (pc' = "storage" /\ i' \in DOMAIN usbDevices')
    <3>1. 1 \in 1..Len(Bus)+1
      BY BusFacts
    <3> QED
      BY <1>2, <1>4, <1>5, <3>1
  <2>2. failed' \in BOOLEAN
    BY <1>1 DEF TypeOK
  <2> QED
    BY <1>1, <1>2, <1>5, <2>1, <2>2 DEF TypeOK
<1>16. \A e : IsDisk(e)' <=> IsDisk(e)
  BY <1>2 DEF IsDisk, Connected
<1>17. DisksInv'
  <2>1. ASSUME NEW k \in DOMAIN disks'
        PROVE  /\ pc' = "storage" => disks'[k].device < i'
               /\ IsDisk(usbDevices[disks[k].device])'
               /\ ~failed' /\ Undisturbed(usbDevices[disks[k].device].place)' =>
                    disks'[k].units = Units(plugged'[usbDevices'[disks'[k].device].place])
    <3>1. pc' = "storage" => disks'[k].device < i'
      <4>1. disks'[k].device \in 1..Len(usbDevices) /\ disks'[k].device <= i
        BY <1>3
      <4>2. pc' = "storage" => i' = i + 1
        BY <1>4
      <4> QED
        BY <1>3, <4>1, <4>2
    <3>2. IsDisk(usbDevices[disks[k].device])'
      <4>1. IsDisk(usbDevices[disks'[k].device])
        OBVIOUS
      <4>2. \A e : e = usbDevices'[disks'[k].device] /\ IsDisk(e)' => IsDisk(usbDevices[disks[k].device])'
        BY DEF IsDisk
      <4> QED
        BY <1>2, <1>16, <4>1, <4>2
    <3>3. ASSUME ~failed', Undisturbed(usbDevices[disks[k].device].place)'
          PROVE  disks'[k].units = Units(plugged'[usbDevices'[disks'[k].device].place])
      <4>1. Undisturbed(usbDevices[disks'[k].device].place)
        BY <1>2, <3>3 DEF Undisturbed
      <4> QED
        BY <1>2, <3>3, <4>1
    <3> QED
      BY <3>1, <3>2, <3>3
  <2>2. ASSUME booting', NEW d \in DOMAIN usbDevices', pc' = "storage" => d < i',
               IsDisk(usbDevices[d])'
        PROVE  \E k \in DOMAIN disks' : disks'[k].device = d
    <3>1. IsDisk(usbDevices[d])
      <4>1. \A e : e = usbDevices'[d] /\ IsDisk(usbDevices[d])' => IsDisk(e)'
        BY DEF IsDisk
      <4> QED
        BY <1>2, <1>16, <2>2, <4>1
    <3>2. d \in 1..Len(usbDevices)
      BY <1>2, <1>3
    <3>3. d < i \/ d = i
      <4>1. d <= i
        <5>1. d \in Nat /\ i \in Nat /\ d <= Len(usbDevices)
          BY <1>3, <3>2
        <5>2. CASE i < Len(usbDevices) /\ i' = i + 1 /\ pc' = "storage"
          <6>1. d < i + 1
            BY <2>2, <5>2
          <6> QED
            BY <5>1, <6>1
        <5>3. CASE i = Len(usbDevices)
          BY <5>1, <5>3
        <5> QED
          BY <1>4, <5>2, <5>3
      <4> QED
        BY <1>3, <3>2, <4>1
    <3>4. CASE d = i
      BY <3>1, <3>4
    <3>5. CASE d < i
      <4>1. PICK k \in DOMAIN disks : disks[k].device = d
        BY <1>1, <1>2, <1>3, <2>2, <3>1, <3>2, <3>5 DEF DisksInv
      <4> QED
        BY <4>1
    <3> QED
      BY <3>3, <3>4, <3>5
  <2> QED
    BY <1>5, <2>1, <2>2 DEF DisksInv
<1> QED
  BY <1>6, <1>7, <1>9, <1>10, <1>12, <1>13, <1>14, <1>15, <1>17 DEF BusInv

\* What is known of the disks found so far.
LEMMA DisksSoFar ==
  ASSUME BusInv, pc = "storage"
  PROVE  /\ IsSeq(disks) /\ i \in DOMAIN usbDevices /\ i \in Nat
         /\ \A k \in DOMAIN disks :
              /\ disks[k].device \in DOMAIN usbDevices /\ disks[k].units \in 1..16
              /\ disks[k].device \in Nat /\ disks[k].device < i
              /\ IsDisk(usbDevices[disks[k].device])
              /\ ~failed /\ Undisturbed(usbDevices[disks[k].device].place) =>
                   disks[k].units = Units(plugged[usbDevices[disks[k].device].place])
         /\ \A k, l \in DOMAIN disks : disks[k].device = disks[l].device => k = l
<1>1. TypeOK /\ DevicesInv /\ DisksInv
  BY DEF BusInv
<1>2. IsSeq(usbDevices) /\ i \in DOMAIN usbDevices
  BY <1>1 DEF DevicesInv
<1>3. DOMAIN usbDevices = 1..Len(usbDevices) /\ Len(usbDevices) \in Nat
  BY <1>2, SeqFacts
<1>4. \A k \in DOMAIN disks : disks[k].device \in DOMAIN usbDevices /\ disks[k].units \in 1..16
  BY <1>1 DEF TypeOK
<1>5. \A a \in DOMAIN usbDevices : a \in Nat
  BY <1>3
<1> QED
  BY <1>1, <1>2, <1>4, <1>5 DEF DisksInv

LEMMA NotADiskInv ==
  ASSUME BusInv, NotADisk
  PROVE  BusInv'
<1>1. /\ pc = "storage" /\ ~IsDisk(usbDevices[i])
      /\ Step(Len(usbDevices), "storage", "done")
      /\ UNCHANGED <<port, bus, ports, described, usbDevices, left>>
      /\ disks' = disks /\ failed' = failed
  BY DEF NotADisk
<1>2. /\ IsSeq(disks) /\ i \in Nat
      /\ \A k \in DOMAIN disks :
           /\ disks[k].device \in DOMAIN usbDevices /\ disks[k].units \in 1..16
           /\ disks[k].device \in Nat /\ disks[k].device < i
           /\ IsDisk(usbDevices[disks[k].device])
           /\ ~failed /\ Undisturbed(usbDevices[disks[k].device].place) =>
                disks[k].units = Units(plugged[usbDevices[disks[k].device].place])
      /\ \A k, l \in DOMAIN disks : disks[k].device = disks[l].device => k = l
  BY <1>1, DisksSoFar
<1>3. IsSeq(disks)'
  BY <1>1, <1>2
<1>4. \A k \in DOMAIN disks : disks[k].device <= i
  BY <1>2
<1> QED
  BY <1>1, <1>2, <1>3, <1>4, StorageStep

LEMMA SetupDiskInv ==
  ASSUME BusInv, SetupDisk
  PROVE  BusInv'
<1>1. /\ pc = "storage" /\ IsDisk(usbDevices[i])
      /\ Step(Len(usbDevices), "storage", "done")
      /\ UNCHANGED <<port, bus, ports, described, usbDevices, left>>
  BY DEF SetupDisk
<1>2. /\ IsSeq(disks) /\ i \in Nat /\ i \in DOMAIN usbDevices
      /\ \A k \in DOMAIN disks :
           /\ disks[k].device \in DOMAIN usbDevices /\ disks[k].units \in 1..16
           /\ disks[k].device \in Nat /\ disks[k].device < i
           /\ IsDisk(usbDevices[disks[k].device])
           /\ ~failed /\ Undisturbed(usbDevices[disks[k].device].place) =>
                disks[k].units = Units(plugged[usbDevices[disks[k].device].place])
      /\ \A k, l \in DOMAIN disks : disks[k].device = disks[l].device => k = l
  BY <1>1, DisksSoFar
<1>3. \E u \in 1..16 :
        /\ disks' = Append(disks, [device |-> i, units |-> u])
        /\ failed' \in {failed, TRUE}
        /\ ~failed' /\ Undisturbed(usbDevices[i].place) => u = Units(plugged[usbDevices[i].place])
  <2>1. CASE disks' = Append(disks, [device |-> i, units |-> 1]) /\ failed' = TRUE
    <3>1. 1 \in 1..16
      OBVIOUS
    <3> QED
      BY <2>1, <3>1
  <2>2. ASSUME NEW p \in Responders(usbDevices[i].place[1], usbDevices[i].address, enabled, address),
               disks' = Append(disks, [device |-> i, units |-> IF plugged[p].units > 0
                                                                THEN plugged[p].units ELSE 1]),
               failed' \in {failed, TRUE}
        PROVE  \E u \in 1..16 :
                 /\ disks' = Append(disks, [device |-> i, units |-> u])
                 /\ failed' \in {failed, TRUE}
                 /\ ~failed' /\ Undisturbed(usbDevices[i].place) =>
                      u = Units(plugged[usbDevices[i].place])
    <3> DEFINE u == Units(plugged[p])
    <3>1. p \in Places /\ plugged[p] # NoDevice /\ Answers(p, i)
      BY <2>2 DEF Responders, Connected, Answers
    <3>2. IsKind(plugged[p])
      BY <3>1, KindFacts DEF BusInv
    <3>3. u \in 1..16
      BY <3>2 DEF Units, IsKind
    <3>4. disks' = Append(disks, [device |-> i, units |-> u])
      BY <2>2 DEF Units
    <3>5. Undisturbed(usbDevices[i].place) => p = usbDevices[i].place
      BY <1>1, <1>2, <3>1 DEF BusInv, RegisteredInv, Pending
    <3> HIDE DEF u
    <3>6. Undisturbed(usbDevices[i].place) => u = Units(plugged[usbDevices[i].place])
      BY <3>5 DEF u
    <3> QED
      BY <2>2, <3>3, <3>4, <3>6
  <2> QED
    BY <2>1, <2>2 DEF SetupDisk
<1>4. PICK u \in 1..16 :
        /\ disks' = Append(disks, [device |-> i, units |-> u])
        /\ failed' \in {failed, TRUE}
        /\ ~failed' /\ Undisturbed(usbDevices[i].place) => u = Units(plugged[usbDevices[i].place])
  BY <1>3
<1> DEFINE new == [device |-> i, units |-> u]
           m == Len(disks)
<1>5. new.device = i /\ new.units = u
  OBVIOUS
<1>6. m \in Nat /\ DOMAIN disks = 1..m
  BY <1>2, SeqFacts
<1> HIDE DEF new
<1>7. /\ IsSeq(disks)' /\ DOMAIN disks' = 1..m+1
      /\ \A k \in DOMAIN disks : disks'[k] = disks[k]
      /\ disks'[m + 1] = new
  BY <1>2, <1>4, Appended DEF new
<1> HIDE DEF m
<1>8. /\ \A k \in DOMAIN disks' : k \in DOMAIN disks \/ k = m + 1
      /\ \A k \in DOMAIN disks : k \in DOMAIN disks'
      /\ m + 1 \in DOMAIN disks'
  BY <1>6, <1>7
<1>9. ~failed' => ~failed
  <2>1. failed' = failed \/ failed' = TRUE
    BY <1>4
  <2> QED
    BY <2>1
<1>10. ASSUME NEW k \in DOMAIN disks'
       PROVE  /\ disks'[k].device \in DOMAIN usbDevices /\ disks'[k].units \in 1..16
              /\ disks'[k].device <= i
              /\ IsDisk(usbDevices[disks'[k].device])
              /\ ~failed' /\ Undisturbed(usbDevices[disks'[k].device].place) =>
                   disks'[k].units = Units(plugged[usbDevices[disks'[k].device].place])
  <2>1. CASE k \in DOMAIN disks
    <3>1. disks'[k] = disks[k]
      BY <1>7, <2>1
    <3>2. disks[k].device <= i
      BY <1>2, <2>1
    <3> QED
      BY <1>2, <1>9, <2>1, <3>1, <3>2
  <2>2. CASE k = m + 1
    <3>1. disks'[k].device = i /\ disks'[k].units = u
      BY <1>5, <1>7, <2>2
    <3>2. i <= i
      BY <1>2
    <3> QED
      BY <1>1, <1>2, <1>4, <3>1, <3>2
  <2> QED
    BY <1>8, <2>1, <2>2
<1>11. ASSUME NEW k \in DOMAIN disks', NEW l \in DOMAIN disks',
              disks'[k].device = disks'[l].device
       PROVE  k = l
  <2>1. \A a \in DOMAIN disks : disks'[a].device # i
    <3>1. \A a \in DOMAIN disks : disks[a].device # i
      BY <1>2
    <3> QED
      BY <1>7, <3>1
  <2>2. disks'[m + 1].device = i
    BY <1>5, <1>7
  <2> QED
    BY <1>2, <1>7, <1>8, <1>11, <2>1, <2>2
<1>12. \A k \in DOMAIN disks : \E l \in DOMAIN disks' : disks'[l].device = disks[k].device
  BY <1>7, <1>8
<1>13. \E k \in DOMAIN disks' : disks'[k].device = i
  BY <1>5, <1>7, <1>8
<1> QED
  BY <1>1, <1>4, <1>7, <1>10, <1>11, <1>12, <1>13, StorageStep

-----------------------------------------------------------------------------
(* loadusb *)

\* The enumeration starts over at the first controller with no entry of its
\* own.
LEMMA LoadUsbInv ==
  ASSUME BusInv, LoadUsb
  PROVE  BusInv'
<1>1. /\ pc = "done" /\ pc' = "uhci" /\ i' = 1 /\ port' = port /\ plugged' \in Plugs
      /\ booting' = FALSE /\ earlier' = earlier + Len(usbDevices)
      /\ usbDevices' = <<>> /\ disks' = <<>> /\ failed' = FALSE /\ left' = {}
      /\ pciDevices' = pciDevices /\ routed' = routed /\ enabled' = enabled
      /\ address' = address /\ described' = NoDevice
      /\ TypeOK /\ ScanInv /\ RoutedInv /\ DevicesInv
  BY DEF LoadUsb, ports, BusInv
<1>2. /\ DOMAIN usbDevices' = {} /\ Len(usbDevices') = 0 /\ IsSeq(usbDevices')
      /\ DOMAIN disks' = {} /\ IsSeq(disks')
  BY <1>1, EmptyTable
<1>3. /\ Len(pciDevices) \in Nat /\ DOMAIN pciDevices = 1..Len(pciDevices)
      /\ \A a \in DOMAIN pciDevices : pciDevices[a] \in Int
  BY <1>1, FoundBound DEF ScanInv
<1>4. 1 \in 1..Len(pciDevices)
  <2>1. PICK f \in 1..Len(Bus) : Bus[f] # "absent"
    BY BusFacts
  <2>2. \E a \in 1..Len(pciDevices) : pciDevices[a] = f
    BY <1>1, <1>3, <2>1 DEF ScanInv
  <2> QED
    BY <1>3, <2>2
<1>5. TypeOK'
  <2>1. Len(usbDevices) \in Nat
    BY <1>1, SeqFacts DEF DevicesInv
  <2>2. earlier' \in Nat /\ earlier' + Len(usbDevices') <= MAX_USB
    BY <1>1, <1>2, <2>1 DEF TypeOK
  <2>3. 1 \in 1..Len(Bus)+1
    BY BusFacts
  <2> QED
    BY <1>1, <1>2, <2>2, <2>3 DEF TypeOK
<1>6. ScanInv'
  BY <1>1, <1>3, <1>4 DEF ScanInv, Enumerating
<1>7. RoutedInv'
  BY <1>1 DEF RoutedInv
<1>8. DevicesInv'
  BY <1>1, <1>2 DEF DevicesInv
<1>9. PortsInv'
  BY <1>1 DEF PortsInv, Enumerating
<1>10. RegisteredInv' /\ DescriptorsInv'
  BY <1>2 DEF RegisteredInv, DescriptorsInv
<1>11. CompleteInv'
  <2>1. ASSUME NEW p \in Places PROVE ~Behind(p)'
    <3>1. PICK a \in 1..Len(pciDevices) : pciDevices[a] = p[1]
      BY <1>1, <1>3, PlaceFound
    <3>2. 1 < a => pciDevices[1] < pciDevices[a]
      BY <1>1, <1>3, <1>4 DEF ScanInv
    <3>3. 1 < a \/ a = 1
      BY <1>3, <3>1
    <3>4. ~(p[1] < pciDevices[1])
      BY <1>3, <1>4, <3>1, <3>2, <3>3
    <3> QED
      BY <1>1, <3>4 DEF Behind
  <2> QED
    BY <2>1 DEF CompleteInv
<1>12. DisksInv'
  BY <1>1, <1>2 DEF DisksInv
<1> QED
  BY <1>5, <1>6, <1>7, <1>8, <1>9, <1>10, <1>11, <1>12 DEF BusInv

-----------------------------------------------------------------------------
(* The invariant, and what it gives *)

LEMMA StutterInv ==
  ASSUME BusInv, UNCHANGED vars
  PROVE  BusInv'
<1>1. /\ pc' = pc /\ i' = i /\ port' = port /\ pciDevices' = pciDevices /\ routed' = routed
      /\ plugged' = plugged /\ enabled' = enabled /\ address' = address
      /\ described' = described /\ usbDevices' = usbDevices /\ disks' = disks
      /\ failed' = failed /\ left' = left /\ booting' = booting /\ earlier' = earlier
  BY DEF vars, bus, ports
<1>2. TypeOK' /\ ScanInv' /\ RoutedInv'
  BY <1>1 DEF BusInv, TypeOK, ScanInv, RoutedInv
<1>3. DevicesInv'
  BY <1>1 DEF BusInv, DevicesInv, Pending, Behind, Last, Here
<1>4. PortsInv'
  BY <1>1 DEF BusInv, PortsInv, Connected, Undisturbed, Found, Last, Here, Other
<1>5. RegisteredInv'
  BY <1>1 DEF BusInv, RegisteredInv, Pending, Undisturbed, Answers, Connected
<1>6. DescriptorsInv'
  BY <1>1 DEF BusInv, DescriptorsInv, Pending, Undisturbed, OwnDescriptors, OwnPieces, Fits
<1>7. CompleteInv'
  BY <1>1 DEF BusInv, CompleteInv, Behind, Undisturbed
<1>8. DisksInv'
  <2>2. DisksInv
    BY DEF BusInv
  <2>3. \A k : IsDisk(usbDevices[k])' <=> IsDisk(usbDevices[k])
    BY <1>1 DEF IsDisk, Connected
  <2>4. \A k : IsDisk(usbDevices[disks[k].device])' <=> IsDisk(usbDevices[disks[k].device])
    BY <1>1 DEF IsDisk, Connected
  <2>5. \A k : Undisturbed(usbDevices[disks[k].device].place)'
               <=> Undisturbed(usbDevices[disks[k].device].place)
    BY <1>1 DEF Undisturbed
  <2> QED
    BY <1>1, <2>2, <2>3, <2>4, <2>5 DEF DisksInv
<1> QED
  BY <1>2, <1>3, <1>4, <1>5, <1>6, <1>7, <1>8 DEF BusInv

\* Whatever is plugged in and whatever fails, the table, the ports and the
\* devices at them stay in step (uhci.c, usb_storage.c).
THEOREM BusInvariance == Spec => []BusInv
<1>1. BusInv /\ [Next]_vars => BusInv'
  <2> SUFFICES ASSUME BusInv, [Next]_vars PROVE BusInv'
    OBVIOUS
  <2>1. CASE CheckFunction
    BY <2>1, CheckFunctionInv
  <2>2. CASE ScanDone
    BY <2>2, ScanDoneInv
  <2>3. CASE Ehci
    BY <2>3, EhciInv
  <2>4. CASE NotUhci
    BY <2>4, NotUhciInv
  <2>5. CASE ControllerFails
    BY <2>5, ControllerFailsInv
  <2>6. CASE ResetController
    BY <2>6, ResetControllerInv
  <2>7. CASE NotConnected
    BY <2>7, NotConnectedInv
  <2>8. CASE ResetPort
    BY <2>8, ResetPortInv
  <2>9. CASE ResetPortFails
    BY <2>9, ResetPortFailsInv
  <2>10. CASE Described
    BY <2>10, DescribedInv
  <2>11. CASE DescribeFails
    BY <2>11, DescribeFailsInv
  <2>12. CASE ManyConfigurations
    BY <2>12, ManyConfigurationsInv
  <2>13. CASE AddressFails
    BY <2>13, AddressFailsInv
  <2>14. CASE SetAddress
    BY <2>14, SetAddressFull, SetAddressRegisters
  <2>15. CASE ReadConfiguration
    BY <2>15, ReadConfigurationInv
  <2>16. CASE NotADisk
    BY <2>16, NotADiskInv
  <2>17. CASE SetupDisk
    BY <2>17, SetupDiskInv
  <2>18. CASE LoadUsb
    BY <2>18, LoadUsbInv
  <2>19. CASE UNCHANGED vars
    BY <2>19, StutterInv
  <2> QED
    BY <2>1, <2>2, <2>3, <2>4, <2>5, <2>6, <2>7, <2>8, <2>9, <2>10, <2>11, <2>12, <2>13,
       <2>14, <2>15, <2>16, <2>17, <2>18, <2>19 DEF Next
<1> QED
  BY <1>1, InitInv, PTL DEF Spec

\* The driver stays in its types: an address is one of 1 to 126 and the table
\* has no more entries than usb_devices.
THEOREM BusTypes == Spec => []TypeOK
<1>1. BusInv => TypeOK
  BY DEF BusInv
<1> QED
  BY <1>1, BusInvariance, PTL

\* A registered device is alone at its address and where the driver has it,
\* for every set of devices and every failure (uhci_set_address).
THEOREM AloneAtAddress == Spec => []RegisteredRight
<1>1. BusInv => RegisteredRight
  <2> SUFFICES ASSUME BusInv, NEW k \in DOMAIN usbDevices,
                      Undisturbed(usbDevices[k].place), pc # "configuration", pc # "undefined"
               PROVE  Responders(usbDevices[k].place[1], usbDevices[k].address, enabled, address)
                        = {usbDevices[k].place}
    BY DEF RegisteredRight
  <2>1. usbDevices[k].place \in Places
    BY DEF BusInv, TypeOK
  <2>2. \A q \in Places : Answers(q, k) <=> q = usbDevices[k].place
    BY DEF BusInv, RegisteredInv, Pending
  <2> QED
    BY <2>1, <2>2 DEF Responders, Answers
<1> QED
  BY <1>1, BusInvariance, PTL

\* The descriptors kept for a device are its own and each piece is where it
\* belongs, however often a transfer breaks (uhci_execute_transaction).
THEOREM DescriptorsOwn == Spec => []DescriptorsRight
<1>1. BusInv => DescriptorsRight
  <2> SUFFICES ASSUME BusInv, NEW k \in DOMAIN usbDevices,
                      Undisturbed(usbDevices[k].place), pc # "configuration"
               PROVE  LET d == usbDevices[k]
                          kind == plugged[d.place]
                      IN /\ d.descriptor = d.place
                         /\ kind.packet = 1 \/ kind.total <= kind.packet =>
                              \A q \in DOMAIN d.configuration :
                                LET own == [of |-> d.place, piece |-> q]
                                IN /\ d.configuration[q] \in {d.before[q], own}
                                   /\ d.whole /\ q <= kind.total => d.configuration[q] = own
    BY DEF DescriptorsRight
  <2>1. OwnDescriptors(usbDevices[k])
    BY DEF BusInv, DescriptorsInv, Pending
  <2>2. DOMAIN usbDevices[k].configuration = 1..MaxPieces
    BY DEF BusInv, DevicesInv, IsDevice
  <2> QED
    BY <2>1, <2>2 DEF OwnDescriptors, OwnPieces, Fits
<1> QED
  BY <1>1, BusInvariance, PTL

LEMMA OnlyOne ==
  ASSUME NEW S, NEW e \in S, \A x \in S : x = e
  PROVE  Cardinality(S) = 1
<1>1. S = {e}
  OBVIOUS
<1> QED
  BY <1>1, FS_Singleton

\* If nothing fails every supported device is registered, once, and every
\* disk set up with all its units, once (usb_uhci_init, usb_storage_init).
THEOREM NoDeviceMissed == Spec => []EnumerationComplete
<1>1. BusInv => EnumerationComplete
  <2> SUFFICES ASSUME BusInv, pc = "done", ~failed, NEW p \in Places,
                      plugged[p] # NoDevice, Undisturbed(p)
               PROVE  LET kind == plugged[p]
                          registered == {k \in DOMAIN usbDevices : usbDevices[k].place = p}
                          setUp == {k \in DOMAIN disks : usbDevices[disks[k].device].place = p}
                      IN /\ Cardinality(registered) = 1
                         /\ booting /\ (kind.packet = 1 \/ kind.total <= kind.packet) =>
                              IF kind.units = 0 THEN setUp = {}
                              ELSE Cardinality(setUp) = 1
                                   /\ \A k \in setUp : disks[k].units = kind.units
    BY DEF EnumerationComplete
  <2> DEFINE kind == plugged[p]
             registered == {k \in DOMAIN usbDevices : usbDevices[k].place = p}
             setUp == {k \in DOMAIN disks : usbDevices[disks[k].device].place = p}
  <2>1. /\ TypeOK /\ DevicesInv /\ DescriptorsInv /\ CompleteInv /\ DisksInv /\ RoutedInv
        /\ pc # "undefined" /\ pc # "configuration" /\ pc # "storage"
    BY DEF BusInv
  <2>2. Behind(p)
    BY DEF Behind, Enumerating
  <2>3. PICK r \in DOMAIN usbDevices : usbDevices[r].place = p
    BY <2>1, <2>2 DEF CompleteInv
  <2>4. \A k \in DOMAIN usbDevices : usbDevices[k].place = p => k = r
    BY <2>1, <2>3 DEF DevicesInv
  <2>5. Cardinality(registered) = 1
    <3>1. r \in registered /\ \A x \in registered : x = r
      BY <2>3, <2>4
    <3> HIDE DEF registered
    <3> QED
      BY <3>1, OnlyOne
  <2>6. \A k \in DOMAIN disks : disks[k].device \in DOMAIN usbDevices
    BY <2>1 DEF TypeOK
  <2>7. \A k \in setUp : k \in DOMAIN disks /\ disks[k].device = r
    BY <2>4, <2>6
  <2>8. IsKind(kind) /\ Connected(p)
    BY <2>1, KindFacts DEF Connected, RoutedInv
  <2>9. OwnDescriptors(usbDevices[r])
    BY <2>1, <2>3 DEF DescriptorsInv, Pending
  <2>10. ASSUME Fits(kind), NEW q \in 1..4, q <= kind.total
         PROVE  usbDevices[r].configuration[q] = [of |-> p, piece |-> q]
    <3>1. q \in 1..MaxPieces
      BY DEF MaxPieces
    <3> QED
      BY <2>1, <2>3, <2>9, <2>10, <3>1 DEF OwnDescriptors, OwnPieces
  <2>11. ASSUME Fits(kind), kind.units = 0 PROVE setUp = {}
    <3> SUFFICES ASSUME NEW k \in setUp PROVE FALSE
      OBVIOUS
    <3>1. k \in DOMAIN disks /\ disks[k].device = r
      BY <2>7
    <3>2. IsDisk(usbDevices[r])
      BY <2>1, <3>1 DEF DisksInv
    <3>3. usbDevices[r].configuration[2] = [of |-> p, piece |-> 2]
      <4>1. 2 \in 1..4 /\ 2 <= kind.total
        BY <2>8 DEF IsKind
      <4> QED
        BY <2>10, <2>11, <4>1
    <3>4. usbDevices[r].configuration[2].of = p
      BY <3>3
    <3>5. p = Earlier \/ plugged[p].units > 0
      <4>1. 2 \in 2..4
        OBVIOUS
      <4> QED
        BY <3>2, <3>4, <4>1 DEF IsDisk
    <3> QED
      BY <2>8, <2>11, <3>5, MemoryAssumption DEF IsKind
  <2>12. ASSUME booting, Fits(kind), kind.units # 0
         PROVE  Cardinality(setUp) = 1 /\ \A k \in setUp : disks[k].units = kind.units
    <3>1. kind.units > 0
      BY <2>8, <2>12 DEF IsKind
    <3>2. IsDisk(usbDevices[r])
      <4>1. ASSUME NEW q \in 1..4
            PROVE  LET piece == usbDevices[r].configuration[q]
                   IN piece.of = p /\ piece.piece = q
        <5>1. q <= kind.total
          BY <2>8, <3>1 DEF IsKind
        <5>2. usbDevices[r].configuration[q] = [of |-> p, piece |-> q]
          BY <2>10, <2>12, <5>1
        <5> QED
          BY <5>2
      <4>2. 1 \in 1..4 /\ \A q \in 2..4 : q \in 1..4
        OBVIOUS
      <4> QED
        BY <2>8, <3>1, <4>1, <4>2 DEF IsDisk
    <3>3. PICK s \in DOMAIN disks : disks[s].device = r
      BY <2>1, <2>3, <2>12, <3>2 DEF DisksInv
    <3>4. s \in setUp /\ \A x \in setUp : x = s
      BY <2>1, <2>3, <2>7, <3>3 DEF DisksInv
    <3>5. \A k \in setUp : disks[k].units = kind.units
      BY <2>1, <2>3, <2>7, <3>1 DEF DisksInv, Units
    <3> HIDE DEF setUp
    <3>6. Cardinality(setUp) = 1
      BY <3>4, OnlyOne
    <3> QED
      BY <3>5, <3>6
  <2> HIDE DEF registered, setUp
  <2>13. booting /\ Fits(kind) => IF kind.units = 0 THEN setUp = {}
                       ELSE Cardinality(setUp) = 1 /\ \A k \in setUp : disks[k].units = kind.units
    BY <2>11, <2>12
  <2> QED
    BY <2>5, <2>13 DEF registered, setUp, Fits
<1> QED
  BY <1>1, BusInvariance, PTL

-----------------------------------------------------------------------------
(* The heap the transfers take their descriptors from.  A controller reads   *)
(* flags in the low bits of a pointer, so they have to be aligned.           *)

CONSTANTS HEAP_START, Alignments, Sizes, HeapEnd
VARIABLES free_memory_start, blocks

H == INSTANCE Heap

Block == [start : Nat, size : Nat, alignment : Nat \ {0}]

\* Everything handed out is below the mark.
HeapInv == /\ free_memory_start \in Nat
           /\ blocks \subseteq Block
           /\ \A a \in blocks : a.start + a.size <= free_memory_start
           /\ H!BlocksApart

\* memalign gives an aligned block above the mark, and the mark its end.
LEMMA MemalignRight ==
  ASSUME NEW mark \in Nat, NEW alignment \in Nat \ {0}, NEW size \in Nat
  PROVE  LET got == H!MemalignFrom(mark, alignment, size)
         IN /\ got.start \in Nat /\ got.next = got.start + size
            /\ mark <= got.start
            /\ got.start % alignment = 0
<1> DEFINE diff == mark % alignment
           waste == IF diff = 0 THEN 0 ELSE alignment - diff
<1>1. H!MemalignFrom(mark, alignment, size) = [start |-> mark + waste, next |-> mark + waste + size]
  BY DEF H!MemalignFrom
<1>2. diff \in Nat /\ diff < alignment
  OBVIOUS
<1>3. waste \in Nat
  BY <1>2
<1>4. PICK q \in Int : mark = alignment * q + diff
  <2>1. mark = alignment * (mark \div alignment) + diff /\ mark \div alignment \in Int
    OBVIOUS
  <2> QED
    BY <2>1
<1>5. \E k \in Int : mark + waste = alignment * k
  <2>1. CASE diff = 0
    <3>1. mark + waste = alignment * q
      BY <1>4, <2>1
    <3> QED
      BY <3>1
  <2>2. CASE diff # 0
    <3>1. mark + waste = alignment * (q + 1)
      BY <1>2, <1>4, <2>2
    <3> QED
      BY <3>1
  <2> QED
    BY <2>1, <2>2
<1>6. (mark + waste) % alignment = 0
  <2>1. PICK k \in Int : mark + waste = alignment * k
    BY <1>5
  <2>2. (alignment * k) % alignment = 0
    OBVIOUS
  <2> QED
    BY <2>1, <2>2
<1> HIDE DEF waste
<1> QED
  BY <1>1, <1>3, <1>6

\* A block above the mark keeps what holds of the blocks.
LEMMA BlockAdded ==
  ASSUME HeapInv, NEW b \in Block, free_memory_start <= b.start, b.start % b.alignment = 0,
         free_memory_start' = b.start + b.size, blocks' = blocks \cup {b}
  PROVE  HeapInv'
<1>1. free_memory_start' \in Nat /\ blocks' \subseteq Block
  BY DEF HeapInv, Block
<1>2. \A a \in blocks : a.start \in Nat /\ a.size \in Nat /\ a.start + a.size <= free_memory_start
  BY DEF HeapInv, Block
<1>3. b.start \in Nat /\ b.size \in Nat /\ free_memory_start \in Nat
  BY DEF HeapInv, Block
<1>4. \A a \in blocks' : a.start + a.size <= free_memory_start'
  BY <1>2, <1>3
<1>5. \A a \in blocks : H!Apart(a, b) /\ H!Apart(b, a)
  BY <1>2, <1>3, free_memory_start <= b.start DEF H!Apart
<1>6. H!BlocksApart'
  BY <1>5 DEF HeapInv, H!BlocksApart
<1> QED
  BY <1>1, <1>4, <1>6 DEF HeapInv

\* Whatever the calls of malloc and memalign, in whatever order: no block
\* overlaps another and each is aligned as asked, be it any power of two
\* (memory.c).
THEOREM HeapBlocksApart ==
  ASSUME HEAP_START \in Nat, Alignments \subseteq H!PowersOfTwo, Sizes \subseteq Nat
  PROVE  H!Spec => []H!BlocksApart
<1>1. H!Init => HeapInv
  BY DEF H!Init, HeapInv, H!BlocksApart
<1>2. HeapInv /\ [H!Next]_H!vars => HeapInv'
  <2>0. \A alignment \in Alignments : alignment \in Nat \ {0}
    BY DEF H!PowersOfTwo
  <2> SUFFICES ASSUME HeapInv, [H!Next]_H!vars PROVE HeapInv'
    OBVIOUS
  <2>1. ASSUME NEW size \in Sizes, H!Malloc(size) PROVE HeapInv'
    <3> DEFINE b == [start |-> free_memory_start, size |-> size, alignment |-> 1]
    <3>1. b \in Block
      BY DEF HeapInv, Block
    <3>2. b.start % b.alignment = 0 /\ free_memory_start <= b.start
      BY DEF HeapInv
    <3>3. free_memory_start' = b.start + b.size /\ blocks' = blocks \cup {b}
      BY <2>1 DEF H!Malloc
    <3> HIDE DEF b
    <3> QED
      BY <3>1, <3>2, <3>3, BlockAdded
  <2>2. ASSUME NEW size \in Sizes, NEW alignment \in Alignments, H!Memalign(alignment, size)
        PROVE  HeapInv'
    <3> DEFINE got == H!MemalignFrom(free_memory_start, alignment, size)
               b == [start |-> got.start, size |-> size, alignment |-> alignment]
    <3>1. /\ got.start \in Nat /\ got.next = got.start + size
          /\ free_memory_start <= got.start /\ got.start % alignment = 0
      BY <2>0, MemalignRight DEF HeapInv
    <3>2. free_memory_start' = got.next /\ blocks' = blocks \cup {b}
      BY <2>2 DEF H!Memalign
    <3> HIDE DEF got
    <3>3. b \in Block /\ b.start % b.alignment = 0 /\ free_memory_start <= b.start
      BY <2>0, <3>1 DEF Block
    <3>4. free_memory_start' = b.start + b.size
      BY <3>1, <3>2
    <3> HIDE DEF b
    <3> QED
      BY <3>2, <3>3, <3>4, BlockAdded
  <2>3. CASE UNCHANGED H!vars
    BY <2>3 DEF HeapInv, H!BlocksApart, H!vars
  <2> QED
    BY <2>1, <2>2, <2>3 DEF H!Next
<1>3. HeapInv => H!BlocksApart
  BY DEF HeapInv
<1> QED
  BY <1>1, <1>2, <1>3, PTL DEF H!Spec
-----------------------------------------------------------------------------

=============================================================================
