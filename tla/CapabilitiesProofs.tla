-------------------------- MODULE CapabilitiesProofs --------------------------
(***************************************************************************)
(* Theorems of Capabilities and of the devices it is composed with: for any*)
(* machines, any number of devices and configurations, every failure.      *)
(***************************************************************************)
EXTENDS Capabilities, FiniteSetTheorems, SequenceTheorems, WellFoundedInduction, TLAPS

-----------------------------------------------------------------------------
(* Least elements. *)

LEMMA LeastNumber ==
  ASSUME NEW T \in SUBSET Nat, T # {}
  PROVE  \E m \in T : \A k \in T : m <= k
<1> DEFINE R == OpToRel(<, Nat)
<1>1. IsWellFoundedOn(R, Nat)
  BY NatLessThanWellFounded
<1>2. \A k, m \in Nat : k < m => <<k, m>> \in R
  BY DEF OpToRel
<1> HIDE DEF R
<1>3. PICK m \in T : \A k \in T : <<k, m>> \notin R
  BY <1>1, WFMin
<1>4. \A k \in T : k \in Nat /\ m \in Nat /\ ~(k < m)
  BY <1>2, <1>3
<1> QED BY <1>3, <1>4

LEMMA LeastPair ==
  ASSUME NEW T \in SUBSET (Nat \X Nat), T # {}
  PROVE  \E p \in T : \A q \in T : p[1] < q[1] \/ (p[1] = q[1] /\ p[2] <= q[2])
<1>1. {p[1] : p \in T} \in SUBSET Nat /\ {p[1] : p \in T} # {}
  OBVIOUS
<1>2. PICK a \in {p[1] : p \in T} : \A k \in {p[1] : p \in T} : a <= k
  BY <1>1, LeastNumber
<1>3. {p[2] : p \in {q \in T : q[1] = a}} \in SUBSET Nat /\ {p[2] : p \in {q \in T : q[1] = a}} # {}
  BY <1>2
<1>4. PICK b \in {p[2] : p \in {q \in T : q[1] = a}} :
        \A k \in {p[2] : p \in {q \in T : q[1] = a}} : b <= k
  BY <1>3, LeastNumber
<1>5. PICK p \in T : p[1] = a /\ p[2] = b
  BY <1>4
<1>6. ASSUME NEW q \in T PROVE p[1] < q[1] \/ (p[1] = q[1] /\ p[2] <= q[2])
  <2>1. a <= q[1] /\ a \in Nat /\ q[1] \in Nat
    BY <1>1, <1>2
  <2>2. q[1] = a => b <= q[2]
    BY <1>4
  <2> QED BY <1>5, <2>1, <2>2
<1> QED BY <1>5, <1>6

\* The kernel hands out the smallest descriptor that is free.
LEMMA NextFdIsFree ==
  ASSUME NEW open \in SUBSET Nat, IsFiniteSet(open)
  PROVE  NextFd(open) \in Nat /\ NextFd(open) >= FirstFd /\ NextFd(open) \notin open
<1> DEFINE top == FirstFd + Cardinality(open)
           free == {fd \in FirstFd .. top : fd \notin open}
<1>1. Cardinality(open) \in Nat /\ top \in Nat
  BY FS_CardinalityType DEF FirstFd
<1>2. free # {}
  <2>1. SUFFICES ASSUME \A fd \in FirstFd .. top : fd \in open PROVE FALSE
    OBVIOUS
  <2>2. FirstFd .. top \in SUBSET open
    BY <2>1
  <2>3. Cardinality(FirstFd .. top) <= Cardinality(open)
    BY <2>2, FS_Subset
  <2>4. Cardinality(FirstFd .. top) = Cardinality(open) + 1
    <3>1. FirstFd \in Int /\ top \in Int /\ ~(FirstFd > top) /\ top - FirstFd + 1 = Cardinality(open) + 1
      BY <1>1 DEF FirstFd
    <3> HIDE DEF top
    <3> QED BY <3>1, FS_Interval
  <2> QED BY <1>1, <2>3, <2>4
<1>3. free \in SUBSET Nat
  BY <1>1 DEF FirstFd
<1>4. PICK m \in free : \A k \in free : m <= k
  BY <1>2, <1>3, LeastNumber
<1>5. m \in FirstFd .. top /\ m \notin open /\ \A lower \in FirstFd .. m - 1 : lower \in open
  <2>1. m \in FirstFd .. top /\ m \notin open
    BY <1>4
  <2>2. ASSUME NEW lower \in FirstFd .. m - 1, lower \notin open PROVE FALSE
    <3>1. lower \in FirstFd .. top /\ lower < m
      BY <1>1, <2>1, <2>2 DEF FirstFd
    <3>2. m <= lower
      BY <1>4, <2>2, <3>1
    <3> QED BY <1>3, <2>2, <3>1, <3>2 DEF FirstFd
  <2> QED BY <2>1, <2>2
<1>6. NextFd(open) \in FirstFd .. top /\ NextFd(open) \notin open
  BY <1>5 DEF NextFd
<1> QED BY <1>1, <1>6 DEF FirstFd

-----------------------------------------------------------------------------
(* The devices. *)

TableOK(table) == DOMAIN table \in SUBSET Nat /\ IsFiniteSet(DOMAIN table)

IsList(list) == Len(list) \in Nat /\ list = [i \in 1 .. Len(list) |-> list[i]]

\* A device has its own descriptors.
DeviceHeld(d) ==
  /\ d = [video_fd |-> d.video_fd, media_fd |-> d.media_fd, path |-> d.path]
  /\ d.video_fd \in DOMAIN fds /\ fds[d.video_fd] = [of |-> "video", path |-> d.path]
  /\ d.path[3] => d.media_fd \in DOMAIN fds /\ fds[d.media_fd] = [of |-> "media", path |-> d.path]
  /\ ~d.path[3] => d.media_fd = NoFd
NoneShared ==
  \A i, j \in DOMAIN devices : i # j => Owned(<<devices[i]>>) \cap Owned(<<devices[j]>>) = {}

\* A descriptor is one of a probe or of a device, until the driver is gone.
Attributed ==
  phase # "down" => \A fd \in DOMAIN fds : fds[fd].of = "probed" \/ fd \in Owned(devices)

DevicesInv ==
  /\ TableOK(fds) /\ IsList(devices)
  /\ \A i \in DOMAIN devices : DeviceHeld(devices[i])
  /\ NoneShared /\ Attributed /\ ClosedAtEnd

LEMMA OwnedOne == \A d : Owned(<<d>>) = {d.video_fd, d.media_fd} \ {NoFd}
<1> SUFFICES ASSUME NEW d PROVE Owned(<<d>>) = {d.video_fd, d.media_fd} \ {NoFd}
  OBVIOUS
<1>1. DOMAIN <<d>> = {1} /\ <<d>>[1] = d
  OBVIOUS
<1>2. \A x : x \in Owned(<<d>>) <=> x \in {d.video_fd, d.media_fd} \ {NoFd}
  BY <1>1 DEF Owned
<1> QED BY <1>2

LEMMA AppendList ==
  ASSUME NEW list, IsList(list), NEW e
  PROVE  /\ IsList(Append(list, e)) /\ Len(Append(list, e)) = Len(list) + 1
         /\ DOMAIN list = 1 .. Len(list) /\ DOMAIN Append(list, e) = 1 .. Len(list) + 1
         /\ \A i \in 1 .. Len(list) : Append(list, e)[i] = list[i]
         /\ Append(list, e)[Len(list) + 1] = e
<1> DEFINE S == {list[i] : i \in 1 .. Len(list)} \cup {e}
<1>1. list \in [1 .. Len(list) -> S] /\ Len(list) \in Nat
  <2>1. \A i \in 1 .. Len(list) : list[i] \in S
    OBVIOUS
  <2> QED BY <2>1 DEF IsList
<1>2. list \in Seq(S) /\ e \in S
  BY <1>1, SeqDef
<1> HIDE DEF S
<1>3. /\ Append(list, e) \in Seq(S) /\ Len(Append(list, e)) = Len(list) + 1
      /\ \A i \in 1 .. Len(list) : Append(list, e)[i] = list[i]
      /\ Append(list, e)[Len(list) + 1] = e
  BY <1>2, AppendProperties
<1>4. DOMAIN list = 1 .. Len(list) /\ DOMAIN Append(list, e) = 1 .. Len(list) + 1
  BY <1>1, <1>3, LenProperties
<1>5. IsList(Append(list, e))
  BY <1>1, <1>3, <1>4, LenProperties DEF IsList
<1> QED BY <1>3, <1>4, <1>5

\* A file that is opened takes no descriptor from another.
Opening(table, use, path, fd, new) == fd = NextFd(DOMAIN table) /\ new = Open(table, use, path)
HasOpened(table, use, path, fd, new) ==
  /\ TableOK(new) /\ DOMAIN new = DOMAIN table \cup {fd}
  /\ fd \in Nat /\ fd # NoFd /\ fd \notin DOMAIN table
  /\ new[fd] = [of |-> use, path |-> path]
  /\ \A old \in DOMAIN table : new[old] = table[old]

LEMMA Opened ==
  ASSUME NEW table, NEW use, NEW path, NEW fd, NEW new,
         TableOK(table), Opening(table, use, path, fd, new)
  PROVE  HasOpened(table, use, path, fd, new)
<1>1. fd \in Nat /\ fd # NoFd /\ fd \notin DOMAIN table
  BY NextFdIsFree DEF TableOK, NoFd, Opening
<1>2. DOMAIN new = DOMAIN table \cup {fd}
  BY DEF Open, Opening
<1>3. TableOK(new)
  BY <1>1, <1>2, FS_AddElement DEF TableOK
<1>4. new[fd] = [of |-> use, path |-> path] /\ \A old \in DOMAIN table : new[old] = table[old]
  BY <1>1 DEF Open, Opening
<1> QED BY <1>1, <1>2, <1>3, <1>4 DEF HasOpened

\* The vector that grows closes nothing: what it destroys has been moved from.
LEMMA GrownSame ==
  ASSUME DevicesInv, NEW table
  PROVE  /\ DOMAIN Grow(table, devices) = DOMAIN table
         /\ \A fd \in DOMAIN table : Grow(table, devices)[fd] = table[fd]
<1> DEFINE moved == [i \in DOMAIN devices |-> [devices[i] EXCEPT !.video_fd = NoFd, !.media_fd = NoFd]]
<1>1. ASSUME NEW i \in DOMAIN devices PROVE moved[i].video_fd = NoFd /\ moved[i].media_fd = NoFd
  <2>1. devices[i] = [video_fd |-> devices[i].video_fd, media_fd |-> devices[i].media_fd,
                      path |-> devices[i].path]
    BY DEF DevicesInv, DeviceHeld
  <2> QED BY <2>1
<1>2. Owned(moved) = {}
  <2>1. \A i \in DOMAIN moved : {moved[i].video_fd, moved[i].media_fd} \ {NoFd} = {}
    BY <1>1
  <2> HIDE DEF moved
  <2> QED BY <2>1 DEF Owned
<1>3. Grow(table, devices) = Close(table, {})
  BY <1>2 DEF Grow
<1> QED BY <1>3 DEF Close

\* When an exception leaves the initialisation, or the driver is terminated, the
\* devices that were made are destroyed.
LEMMA Thrown ==
  ASSUME DevicesInv, phase # "down", NEW table, TableOK(table),
         \A fd \in DOMAIN table : (fd \in DOMAIN fds /\ table[fd] = fds[fd]) \/ LeftOpen(table[fd]),
         phase' = "down", devices' = << >>, fds' = Close(table, Owned(devices)),
         UNCHANGED <<todo, paths>>
  PROVE  DevicesInv'
<1>1. DOMAIN fds' = DOMAIN table \ Owned(devices) /\ \A fd \in DOMAIN fds' : fds'[fd] = table[fd]
  BY DEF Close
<1>2. TableOK(fds')
  <2>1. DOMAIN fds' \in SUBSET (DOMAIN table)
    BY <1>1
  <2> QED BY <2>1, FS_Subset DEF TableOK
<1>3. IsList(<< >>) /\ DOMAIN << >> = {}
  BY DEF IsList
<1>4. ClosedAtEnd'
  <2>1. ASSUME NEW fd \in DOMAIN fds' PROVE LeftOpen(fds[fd])'
    <3>1. fd \in DOMAIN table /\ fd \notin Owned(devices) /\ fds'[fd] = table[fd]
      BY <1>1, <2>1
    <3>2. LeftOpen(table[fd])
      BY <3>1 DEF DevicesInv, Attributed, LeftOpen
    <3> QED BY <3>1, <3>2 DEF LeftOpen
  <2> QED BY <2>1 DEF ClosedAtEnd
<1> QED BY <1>2, <1>3, <1>4 DEF DevicesInv, NoneShared, Attributed

\* The exception leaves the file open that was opened last.
LEMMA ThrownOpening ==
  ASSUME DevicesInv, phase # "down", NEW use, NEW path, LeftOpen([of |-> use, path |-> path]),
         Throw(Open(fds, use, path))
  PROVE  DevicesInv'
<1>1. PICK fd, new : Opening(fds, use, path, fd, new)
  BY DEF Opening
<1>2. HasOpened(fds, use, path, fd, new)
  BY <1>1, Opened DEF DevicesInv
<1>3. \A open \in DOMAIN new : (open \in DOMAIN fds /\ new[open] = fds[open]) \/ LeftOpen(new[open])
  BY <1>2 DEF HasOpened
<1>4. /\ phase' = "down" /\ devices' = << >> /\ fds' = Close(new, Owned(devices))
      /\ UNCHANGED <<todo, paths>>
  BY <1>1 DEF Throw, Opening
<1> QED BY <1>2, <1>3, <1>4, Thrown DEF HasOpened

\* Steps that open nothing and make no device.
LEMMA DevicesStay ==
  ASSUME DevicesInv, phase # "down", phase' # "down", UNCHANGED <<fds, devices>>
  PROVE  DevicesInv'
BY DEF DevicesInv, IsList, DeviceHeld, NoneShared, Attributed, ClosedAtEnd, Owned

\* The driver finds and opens devices, until it is up or gives up.
LEMMA ProbeStep ==
  ASSUME DevicesInv, Probe
  PROVE  DevicesInv'
<1>0. phase = "scan" /\ TableOK(fds)
  BY DEF Probe, DevicesInv
<1>1. CASE ~NodeOf(Head(probing)).opens
  <2>1. /\ phase' = "down" /\ devices' = << >> /\ fds' = Close(fds, Owned(devices))
        /\ UNCHANGED <<todo, paths>>
    BY <1>1 DEF Probe, Throw
  <2> QED BY <1>0, <2>1, Thrown
<1>2. CASE NodeOf(Head(probing)).opens /\ NodeOf(Head(probing)).answers
  <2>0. PICK fd, new : Opening(fds, "probed", Head(probing), fd, new)
    BY DEF Opening
  <2>1. fds' = new /\ UNCHANGED <<phase, devices>>
    BY <1>2, <2>0 DEF Probe, Opening
  <2>a. HasOpened(fds, "probed", Head(probing), fd, new)
    BY <1>0, <2>0, Opened
  <2>2. /\ TableOK(new) /\ DOMAIN new = DOMAIN fds \cup {fd}
        /\ new[fd] = [of |-> "probed", path |-> Head(probing)]
        /\ \A old \in DOMAIN fds : new[old] = fds[old]
    BY <2>a DEF HasOpened
  <2>3. \A i \in DOMAIN devices : DeviceHeld(devices[i])'
    BY <2>1, <2>2 DEF DevicesInv, DeviceHeld
  <2>4. Attributed'
    BY <1>0, <2>1, <2>2 DEF DevicesInv, Attributed, Owned
  <2>5. TableOK(fds')
    BY <2>1, <2>2
  <2>6. NoneShared' /\ ClosedAtEnd' /\ IsList(devices')
    BY <1>0, <2>1 DEF DevicesInv, NoneShared, ClosedAtEnd, Owned
  <2> QED BY <2>1, <2>3, <2>4, <2>5, <2>6 DEF DevicesInv
<1>3. CASE NodeOf(Head(probing)).opens /\ ~NodeOf(Head(probing)).answers
  <2>1. Throw(Open(fds, "probed", Head(probing)))
    BY <1>3 DEF Probe
  <2> QED BY <1>0, <2>1, ThrownOpening DEF LeftOpen
<1> QED BY <1>1, <1>2, <1>3

\* A device that is made has descriptors of its own; one that is not leaves those it
\* opened.
LEMMA OpenDeviceStep ==
  ASSUME DevicesInv, OpenDevice
  PROVE  DevicesInv'
<1>0. phase = "open" /\ phase # "down" /\ paths # << >> /\ TableOK(fds) /\ IsList(devices)
  BY DEF OpenDevice, DevicesInv
<1>a. PICK path : path = Head(paths)
  OBVIOUS
<1>b. PICK vfd, video : Opening(fds, "video", path, vfd, video)
  BY DEF Opening
<1>c. PICK mfd, more : Opening(video, "media", path, mfd, more)
  BY DEF Opening
<1>d. PICK media : media = IF path[3] THEN more ELSE video
  OBVIOUS
<1>e. PICK device : device = [video_fd |-> vfd, media_fd |-> IF path[3] THEN mfd ELSE NoFd, path |-> path]
  OBVIOUS
<1>1. \/ Throw(fds) \/ Throw(video) \/ Throw(media)
      \/ devices' = Append(devices, device) /\ fds' = Grow(media, devices) /\ UNCHANGED phase
  BY <1>a, <1>b, <1>c, <1>d, <1>e DEF OpenDevice, Opening
<1>f. HasOpened(fds, "video", path, vfd, video)
  BY <1>0, <1>b, Opened
<1>2. /\ TableOK(video) /\ DOMAIN video = DOMAIN fds \cup {vfd}
      /\ vfd \in Nat /\ vfd # NoFd /\ vfd \notin DOMAIN fds
      /\ video[vfd] = [of |-> "video", path |-> path]
      /\ \A old \in DOMAIN fds : video[old] = fds[old]
  BY <1>f DEF HasOpened
<1>g. HasOpened(video, "media", path, mfd, more)
  BY <1>2, <1>c, Opened
<1>3. /\ TableOK(more) /\ DOMAIN more = DOMAIN video \cup {mfd}
      /\ mfd \in Nat /\ mfd # NoFd /\ mfd \notin DOMAIN video
      /\ more[mfd] = [of |-> "media", path |-> path]
      /\ \A old \in DOMAIN video : more[old] = video[old]
  BY <1>g DEF HasOpened
<1>4. /\ TableOK(media) /\ DOMAIN video \subseteq DOMAIN media /\ DOMAIN media \subseteq DOMAIN video \cup {mfd}
      /\ \A old \in DOMAIN video : media[old] = video[old]
      /\ path[3] => mfd \in DOMAIN media
      /\ mfd \in DOMAIN media => media[mfd] = [of |-> "media", path |-> path] /\ path[3]
  BY <1>2, <1>3, <1>d
<1>5. /\ device.video_fd = vfd /\ device.path = path
      /\ device.media_fd = IF path[3] THEN mfd ELSE NoFd
      /\ device = [video_fd |-> device.video_fd, media_fd |-> device.media_fd, path |-> device.path]
  BY <1>e
<1>6. ASSUME NEW table, TableOK(table), Throw(table),
             \A fd \in DOMAIN table :
               (fd \in DOMAIN fds /\ table[fd] = fds[fd]) \/ LeftOpen(table[fd])
      PROVE  DevicesInv'
  <2>1. /\ phase' = "down" /\ devices' = << >> /\ fds' = Close(table, Owned(devices))
        /\ UNCHANGED <<todo, paths>>
    BY <1>6 DEF Throw
  <2> QED BY <1>0, <1>6, <2>1, Thrown
<1>7. CASE Throw(fds)
  BY <1>0, <1>6, <1>7
<1>8. ASSUME NEW fd \in DOMAIN media
      PROVE  \/ fd \in DOMAIN fds /\ media[fd] = fds[fd] /\ video[fd] = fds[fd]
             \/ fd = vfd /\ media[fd] = [of |-> "video", path |-> path]
             \/ fd = mfd /\ media[fd] = [of |-> "media", path |-> path] /\ path[3]
  BY <1>2, <1>4
<1>9. CASE Throw(video)
  <2>1. \A fd \in DOMAIN video :
          (fd \in DOMAIN fds /\ video[fd] = fds[fd]) \/ LeftOpen(video[fd])
    BY <1>0, <1>a, <1>2 DEF LeftOpen
  <2> QED BY <1>2, <1>6, <1>9, <2>1
<1>10. CASE Throw(media)
  <2>1. \A fd \in DOMAIN media :
          (fd \in DOMAIN fds /\ media[fd] = fds[fd]) \/ LeftOpen(media[fd])
    BY <1>0, <1>a, <1>8 DEF LeftOpen
  <2> QED BY <1>4, <1>6, <1>10, <2>1
<1>11. CASE devices' = Append(devices, device) /\ fds' = Grow(media, devices) /\ UNCHANGED phase
  <2> DEFINE n == Len(devices)
  <2>1. /\ IsList(devices') /\ DOMAIN devices = 1 .. n /\ DOMAIN devices' = 1 .. n + 1
        /\ \A i \in 1 .. n : devices'[i] = devices[i]
        /\ devices'[n + 1] = device /\ n \in Nat
    BY <1>0, <1>11, AppendList DEF IsList
  <2>2. DOMAIN fds' = DOMAIN media /\ \A fd \in DOMAIN media : fds'[fd] = media[fd]
    BY <1>11, GrownSame
  <2>3. TableOK(fds')
    BY <1>4, <2>2 DEF TableOK
  <2>4. \A fd \in DOMAIN fds : fd \in DOMAIN fds' /\ fds'[fd] = fds[fd]
    BY <1>2, <1>4, <2>2
  <2>5. /\ vfd \in DOMAIN fds' /\ fds'[vfd] = [of |-> "video", path |-> path]
        /\ path[3] => mfd \in DOMAIN fds' /\ fds'[mfd] = [of |-> "media", path |-> path]
    BY <1>2, <1>4, <2>2
  <2> HIDE DEF n
  <2>6. \A i \in DOMAIN devices : DeviceHeld(devices[i])
    BY DEF DevicesInv
  <2>7. ASSUME NEW i \in DOMAIN devices' PROVE DeviceHeld(devices[i])'
    <3>1. CASE i \in 1 .. n
      <4>1. devices'[i] = devices[i] /\ DeviceHeld(devices[i])
        BY <2>1, <2>6, <3>1
      <4> QED BY <2>4, <4>1 DEF DeviceHeld
    <3>2. CASE i = n + 1
      <4>1. devices'[i] = device
        BY <2>1, <3>2
      <4> QED BY <1>5, <2>5, <4>1 DEF DeviceHeld
    <3> QED BY <2>1, <2>7, <3>1, <3>2
  <2>8. \A i \in 1 .. n : Owned(<<devices[i]>>) \subseteq DOMAIN fds
    <3>1. SUFFICES ASSUME NEW i \in 1 .. n PROVE {devices[i].video_fd, devices[i].media_fd} \ {NoFd} \subseteq DOMAIN fds
      BY OwnedOne
    <3>2. DeviceHeld(devices[i])
      BY <2>1, <2>6
    <3> QED BY <3>2 DEF DeviceHeld
  <2>9. Owned(<<device>>) \cap DOMAIN fds = {}
    BY <1>2, <1>3, <1>5, OwnedOne
  <2>10. NoneShared'
    <3>1. ASSUME NEW i \in 1 .. n PROVE Owned(<<devices'[i]>>) \cap Owned(<<devices'[n + 1]>>) = {}
      <4>1. Owned(<<devices'[i]>>) \subseteq DOMAIN fds /\ devices'[n + 1] = device
        BY <2>1, <2>8, <3>1
      <4>2. Owned(<<devices'[n + 1]>>) = Owned(<<device>>)
        BY <4>1
      <4> QED BY <2>9, <4>1, <4>2
    <3>2. ASSUME NEW i \in 1 .. n, NEW j \in 1 .. n, i # j
          PROVE  Owned(<<devices'[i]>>) \cap Owned(<<devices'[j]>>) = {}
      <4>1. Owned(<<devices[i]>>) \cap Owned(<<devices[j]>>) = {}
        BY <2>1, <3>2 DEF DevicesInv, NoneShared
      <4> QED BY <2>1, <3>2, <4>1
    <3>3. ASSUME NEW i \in 1 .. n + 1, NEW j \in 1 .. n + 1, i # j
          PROVE  Owned(<<devices'[i]>>) \cap Owned(<<devices'[j]>>) = {}
      <4>1. \/ i \in 1 .. n /\ j \in 1 .. n
            \/ i \in 1 .. n /\ j = n + 1
            \/ j \in 1 .. n /\ i = n + 1
        BY <2>1, <3>3
      <4>2. \A S, T : S \cap T = T \cap S
        OBVIOUS
      <4>3. CASE i \in 1 .. n /\ j \in 1 .. n
        BY <3>2, <3>3, <4>3
      <4>4. CASE i \in 1 .. n /\ j = n + 1
        BY <3>1, <4>4
      <4>5. CASE j \in 1 .. n /\ i = n + 1
        BY <3>1, <4>2, <4>5
      <4> QED BY <4>1, <4>3, <4>4, <4>5
    <3> QED BY <2>1, <3>3 DEF NoneShared
  <2>11. Attributed'
    <3>1. \A fd : fd \in Owned(devices') <=>
            \E i \in 1 .. n + 1 : fd \in {devices'[i].video_fd, devices'[i].media_fd} \ {NoFd}
      BY <2>1 DEF Owned
    <3>2. \A fd : fd \in Owned(devices) <=>
            \E i \in 1 .. n : fd \in {devices[i].video_fd, devices[i].media_fd} \ {NoFd}
      BY <2>1 DEF Owned
    <3>3. ASSUME NEW fd \in DOMAIN fds' PROVE fds'[fd].of = "probed" \/ fd \in Owned(devices')
      <4>1. fd \in DOMAIN media /\ fds'[fd] = media[fd]
        BY <2>2
      <4>2. CASE fd \in DOMAIN fds /\ media[fd] = fds[fd]
        <5>1. fds[fd].of = "probed" \/ fd \in Owned(devices)
          BY <1>0, <4>2 DEF DevicesInv, Attributed
        <5>2. \A i \in 1 .. n : i \in 1 .. n + 1 /\ devices'[i] = devices[i]
          BY <2>1
        <5> QED BY <3>1, <3>2, <4>1, <4>2, <5>1, <5>2
      <4>3. CASE fd = vfd
        BY <1>2, <1>5, <2>1, <3>1, <4>3
      <4>4. CASE fd = mfd /\ path[3]
        BY <1>3, <1>5, <2>1, <3>1, <4>4
      <4> QED BY <1>8, <4>1, <4>2, <4>3, <4>4
    <3>4. DOMAIN fds' = DOMAIN fds' /\ Owned(devices)' = Owned(devices')
      BY DEF Owned
    <3> QED BY <3>3, <3>4 DEF Attributed
  <2>12. ClosedAtEnd'
    BY <1>0, <1>11 DEF ClosedAtEnd
  <2> QED BY <2>1, <2>3, <2>7, <2>10, <2>11, <2>12 DEF DevicesInv
<1> QED BY <1>1, <1>7, <1>9, <1>10, <1>11

LEMMA DevicesStep == DevicesInv /\ DevicesNext => DevicesInv'
<1> SUFFICES ASSUME DevicesInv, DevicesNext PROVE DevicesInv'
  OBVIOUS
<1>1. CASE ScanMedia
  <2>1. phase = "scan" /\ TableOK(fds)
    BY <1>1 DEF ScanMedia, DevicesInv
  <2>2. CASE UNCHANGED <<phase, fds, devices>>
    BY <2>1, <2>2, DevicesStay
  <2>3. CASE Throw(fds)
    <3>1. /\ phase' = "down" /\ devices' = << >> /\ fds' = Close(fds, Owned(devices))
          /\ UNCHANGED <<todo, paths>>
      BY <2>3 DEF Throw
    <3> QED BY <2>1, <3>1, Thrown
  <2>4. CASE Throw(Open(fds, "scanned", <<Head(todo)>>))
    <3>1. LeftOpen([of |-> "scanned", path |-> <<Head(todo)>>])
      BY <1>1 DEF ScanMedia, LeftOpen
    <3> QED BY <2>1, <2>4, <3>1, ThrownOpening
  <2> QED BY <1>1, <2>2, <2>3, <2>4 DEF ScanMedia
<1>2. CASE Probe
  BY <1>2, ProbeStep
<1>3. CASE Override \/ Initialised
  BY <1>3, DevicesStay DEF Override, Initialised
<1>4. CASE OpenDevice
  BY <1>4, OpenDeviceStep
<1>5. CASE Terminate
  <2>1. TableOK(fds) /\ phase # "down"
    BY <1>5 DEF Terminate, DevicesInv
  <2>2. /\ phase' = "down" /\ devices' = << >> /\ fds' = Close(fds, Owned(devices))
        /\ UNCHANGED <<todo, paths>>
    BY <1>5 DEF Terminate, CloseDevices
  <2> QED BY <2>1, <2>2, Thrown
<1> QED BY <1>1, <1>2, <1>3, <1>4, <1>5 DEF DevicesNext

-----------------------------------------------------------------------------
(* Configurations and contexts.  They belong to the devices the driver has *)
(* while it is up, and these do not change.                                *)

NothingYet ==
  phase \in {"scan", "open"} =>
    /\ configs = [c \in ConfigIds |-> NoProfile] /\ attributes = [c \in ConfigIds |-> << >>]
    /\ context = NoContext /\ ~surfaces /\ ~crashed

ConfigKept(c) ==
  configs[c] # NoProfile =>
    /\ configs[c] \in Supported
    /\ Len(attributes[c]) <= MaxAttributes /\ attributes[c][1] = GetConfigAttribute("RTFormat")

WhileUp ==
  phase = "up" =>
    /\ configs = [c \in ConfigIds |-> configs[c]] /\ attributes = [c \in ConfigIds |-> attributes[c]]
    /\ \A c \in ConfigIds : ConfigKept(c)
    /\ surfaces => \E i \in 1 .. Len(devices) : Matches(devices[i])

CapInv ==
  /\ phase \in {"scan", "open", "up", "down"}
  /\ DevicesInv /\ NothingYet /\ WhileUp /\ ContextDecodesProfile /\ FormatFound

\* What all devices support, one of them decodes.
LEMMA SupportedDecoded ==
  ASSUME NEW p, p \in Supported
  PROVE  Decoders(p) # {}
<1>1. PICK i \in 1 .. Len(devices) : p \in DeviceProfiles(devices[i])
  BY DEF Supported
<1>2. PICK c \in 1 .. Len(Codecs) : Decodes(devices[i], Codecs[c]) /\ p \in ProfilesOf(Codecs[c])
  BY <1>1 DEF DeviceProfiles
<1>3. <<i, c>> \in Decoders(p)
  BY <1>2 DEF Decoders
<1> QED BY <1>3

\* The first of them is one.
LEMMA FirstChoiceDecodes ==
  ASSUME IsList(devices), NEW p, Decoders(p) # {}
  PROVE  FirstChoice(p) \in Decoders(p)
<1>1. Decoders(p) \in SUBSET (Nat \X Nat)
  <2>1. Len(devices) \in Nat /\ Len(Codecs) \in Nat
    BY DEF IsList, Codecs
  <2> QED BY <2>1 DEF Decoders
<1>2. \E choice \in Decoders(p) : \A other \in Decoders(p) :
        choice[1] < other[1] \/ (choice[1] = other[1] /\ choice[2] <= other[2])
  BY <1>1, LeastPair
<1> QED BY <1>2 DEF FirstChoice

\* The driver's attribute is the first of those that are kept.
LEMMA StoredAnswer ==
  ASSUME NEW given \in Requests
  PROVE  Len(Stored(given)) <= MaxAttributes /\ Stored(given)[1] = GetConfigAttribute("RTFormat")
<1> DEFINE A == {given[i] : i \in 1 .. Len(given)} \cup {GetConfigAttribute("RTFormat")}
           n == IF Len(given) < MaxAttributes THEN Len(given) ELSE MaxAttributes
           rest == SubSeq(given, 2, n)
           first == <<GetConfigAttribute("RTFormat")>>
<1>1. MaxAttributes \in Nat \ {0}
  BY CapabilitiesAssumption DEF CapabilitiesAssumption
<1>2. Len(given) \in Nat /\ n \in Nat /\ n <= Len(given) /\ n <= MaxAttributes
  <2>1. given \in Seq([type : STRING, value : STRING])
    BY CapabilitiesAssumption DEF CapabilitiesAssumption
  <2>2. Len(given) \in Nat
    BY <2>1, LenProperties
  <2> QED BY <1>1, <2>2
<1>4. first \in Seq(A) /\ Len(first) = 1 /\ first[1] = GetConfigAttribute("RTFormat")
  OBVIOUS
<1>5. ASSUME NEW i \in 2 .. n PROVE given[i] \in A
  <2>1. i \in 1 .. Len(given)
    BY <1>2
  <2> QED BY <2>1
<1> HIDE DEF A, n, first
<1>6. rest \in Seq(A) /\ Len(rest) = IF 2 <= n THEN n - 2 + 1 ELSE 0
  BY <1>2, <1>5, SubSeqProperties
<1> HIDE DEF rest
<1>7. Len(first \o rest) = 1 + Len(rest) /\ (first \o rest)[1] = first[1]
  <2>1. /\ Len(first \o rest) = Len(first) + Len(rest)
        /\ \A i \in 1 .. Len(first) + Len(rest) :
             (first \o rest)[i] = IF i <= Len(first) THEN first[i] ELSE rest[i - Len(first)]
    BY <1>4, <1>6, ConcatProperties
  <2>2. 1 \in 1 .. Len(first) + Len(rest)
    BY <1>2, <1>4, <1>6
  <2> QED BY <1>4, <2>1, <2>2
<1>8. Stored(given) = first \o rest
  BY DEF Stored, first, rest, n
<1> QED BY <1>1, <1>2, <1>4, <1>6, <1>7, <1>8

LEMMA CapInit == Init => CapInv
<1> SUFFICES ASSUME Init PROVE CapInv
  OBVIOUS
<1>1. /\ phase = "scan" /\ fds = << >> /\ devices = << >> /\ context = NoContext
      /\ configs = [c \in ConfigIds |-> NoProfile] /\ attributes = [c \in ConfigIds |-> << >>]
      /\ ~surfaces /\ ~crashed
  BY DEF Init, DevicesInit
<1>2. DOMAIN << >> = {} /\ Len(<< >>) = 0
  OBVIOUS
<1>3. TableOK(fds) /\ IsList(devices)
  BY <1>1, <1>2, FS_EmptySet DEF TableOK, IsList
<1>4. NoneShared /\ Attributed /\ ClosedAtEnd /\ \A i \in DOMAIN devices : DeviceHeld(devices[i])
  BY <1>1, <1>2 DEF NoneShared, Attributed, ClosedAtEnd
<1>5. NothingYet /\ WhileUp /\ ContextDecodesProfile /\ FormatFound
  BY <1>1 DEF NothingYet, WhileUp, ContextDecodesProfile, FormatFound
<1> QED BY <1>1, <1>3, <1>4, <1>5 DEF CapInv, DevicesInv

\* What the client does leaves the devices as they are.
LEMMA UseStep == CapInv /\ Use => CapInv'
<1> SUFFICES ASSUME CapInv, Use PROVE CapInv'
  OBVIOUS
<1>0. phase = "up" /\ ~crashed /\ DevicesInv /\ WhileUp /\ ContextDecodesProfile /\ IsList(devices)
  BY DEF CapInv, Use, DevicesInv
<1>1. UNCHANGED <<system, phase, todo, probing, paths, fds, devices, capacity>>
  BY DEF Use, deviceVars, QueryConfigProfiles, CreateConfig, DestroyConfig, CreateSurfaces,
         CreateContext
<1>2. DevicesInv'
  BY <1>0, <1>1, DevicesStay
<1>3. Supported' = Supported /\ \A i \in 1 .. Len(devices) : Matches(devices[i])' <=> Matches(devices[i])
  <2>1. Supported' = Supported
    BY <1>1 DEF Supported, DeviceProfiles, Decodes, NodeOf, MediaOf
  <2>2. \A i \in 1 .. Len(devices) : Matches(devices[i])' <=> Matches(devices[i])
    BY <1>1 DEF Matches, NodeOf, MediaOf
  <2> QED BY <2>1, <2>2
<1>4. (phase \in {"scan", "open", "up", "down"} /\ NothingYet)'
  BY <1>0, <1>1 DEF NothingYet
<1>5. ASSUME UNCHANGED <<configs, attributes, surfaces>> PROVE WhileUp'
  BY <1>0, <1>1, <1>3, <1>5 DEF WhileUp, ConfigKept
<1>6. ASSUME UNCHANGED context PROVE ContextDecodesProfile'
  BY <1>0, <1>1, <1>6 DEF ContextDecodesProfile, NodeOf, MediaOf
<1>7. ASSUME UNCHANGED crashed PROVE FormatFound'
  BY <1>0, <1>1, <1>7 DEF FormatFound
<1>8. CASE QueryConfigProfiles
  <2>1. UNCHANGED <<configs, attributes, surfaces, context, crashed>>
    BY <1>8 DEF QueryConfigProfiles
  <2> QED BY <1>2, <1>4, <1>5, <1>6, <1>7, <2>1 DEF CapInv
<1>9. ASSUME NEW p \in AllProfiles, NEW given \in Requests, CreateConfig(p, given) PROVE CapInv'
  <2>1. p \in Supported /\ UNCHANGED <<surfaces, context, crashed>>
    BY <1>9 DEF CreateConfig
  <2>2. PICK c \in ConfigIds :
          configs' = [configs EXCEPT ![c] = p] /\ attributes' = [attributes EXCEPT ![c] = Stored(given)]
    BY <1>9 DEF CreateConfig, SmallestFree
  <2>3. WhileUp'
    <3>1. /\ \A d \in ConfigIds : configs'[d] = IF d = c THEN p ELSE configs[d]
          /\ \A d \in ConfigIds : attributes'[d] = IF d = c THEN Stored(given) ELSE attributes[d]
          /\ configs' = [d \in ConfigIds |-> configs'[d]] /\ attributes' = [d \in ConfigIds |-> attributes'[d]]
      BY <1>0, <2>2 DEF WhileUp
    <3>2. ASSUME NEW d \in ConfigIds PROVE ConfigKept(d)'
      BY <1>0, <1>3, <2>1, <3>1, StoredAnswer DEF WhileUp, ConfigKept, GetConfigAttribute
    <3>3. (surfaces => \E i \in 1 .. Len(devices) : Matches(devices[i]))'
      BY <1>0, <1>1, <1>3, <2>1 DEF WhileUp
    <3> QED BY <3>1, <3>2, <3>3 DEF WhileUp
  <2> QED BY <1>2, <1>4, <1>6, <1>7, <2>1, <2>3 DEF CapInv
<1>10. ASSUME NEW c \in ConfigIds, DestroyConfig(c) PROVE CapInv'
  <2>1. /\ configs' = [configs EXCEPT ![c] = NoProfile] /\ attributes' = [attributes EXCEPT ![c] = << >>]
        /\ UNCHANGED <<surfaces, context, crashed>>
    BY <1>10 DEF DestroyConfig
  <2>2. WhileUp'
    <3>1. /\ \A d \in ConfigIds : configs'[d] = IF d = c THEN NoProfile ELSE configs[d]
          /\ \A d \in ConfigIds : d # c => attributes'[d] = attributes[d]
          /\ configs' = [d \in ConfigIds |-> configs'[d]] /\ attributes' = [d \in ConfigIds |-> attributes'[d]]
      BY <1>0, <2>1 DEF WhileUp
    <3>2. ASSUME NEW d \in ConfigIds PROVE ConfigKept(d)'
      BY <1>0, <1>3, <3>1 DEF WhileUp, ConfigKept, GetConfigAttribute
    <3>3. (surfaces => \E i \in 1 .. Len(devices) : Matches(devices[i]))'
      BY <1>0, <1>1, <1>3, <2>1 DEF WhileUp
    <3> QED BY <3>1, <3>2, <3>3 DEF WhileUp
  <2> QED BY <1>2, <1>4, <1>6, <1>7, <2>1, <2>2 DEF CapInv
<1>11. CASE CreateSurfaces
  <2>1. UNCHANGED <<configs, attributes, context, crashed>> /\ \E i \in 1 .. Len(devices) : Matches(devices[i])
    BY <1>11 DEF CreateSurfaces
  <2>2. WhileUp'
    <3>1. \A c \in ConfigIds : ConfigKept(c)'
      BY <1>0, <1>3, <2>1 DEF WhileUp, ConfigKept
    <3> QED BY <1>0, <1>1, <1>3, <2>1, <3>1 DEF WhileUp
  <2> QED BY <1>2, <1>4, <1>6, <1>7, <2>1, <2>2 DEF CapInv
<1>12. ASSUME NEW c \in ConfigIds, CreateContext(c) PROVE CapInv'
  <2>1. PICK choice : choice = FirstChoice(configs[c])
    OBVIOUS
  <2>2. /\ surfaces /\ Decoders(configs[c]) # {} /\ UNCHANGED <<configs, attributes, surfaces>>
        /\ context' = [profile |-> configs[c], codec |-> Codecs[choice[2]], device |-> choice[1]]
        /\ crashed' \in IF Matches(devices[choice[1]]) THEN {FALSE} ELSE BOOLEAN
    BY <1>12, <2>1 DEF CreateContext
  <2>3. choice \in Decoders(configs[c])
    BY <1>0, <2>1, <2>2, FirstChoiceDecodes
  <2>4. /\ choice[1] \in 1 .. Len(devices) /\ Codecs[choice[2]] \in NodeOf(devices[choice[1]].path).coded
        /\ configs[c] \in ProfilesOf(Codecs[choice[2]])
    BY <2>3 DEF Decoders, Decodes
  <2>5. ContextDecodesProfile'
    BY <1>1, <2>2, <2>4 DEF ContextDecodesProfile, NodeOf, MediaOf
  <2>6. FormatFound'
    <3>1. PICK i \in 1 .. Len(devices) : Matches(devices[i])
      BY <1>0, <2>2 DEF WhileUp
    <3>2. Len(devices) = 1 => i = 1 /\ choice[1] = 1
      BY <2>4
    <3> QED BY <1>1, <2>2, <3>1, <3>2 DEF FormatFound
  <2> QED BY <1>2, <1>4, <1>5, <2>2, <2>5, <2>6 DEF CapInv
<1> QED BY <1>8, <1>9, <1>10, <1>11, <1>12 DEF Use

\* The devices change before the driver is up, or when it ends.
LEMMA DevicesOnly ==
  ASSUME CapInv, ~crashed, DevicesNext,
         UNCHANGED <<configs, attributes, surfaces, advertised, context, crashed>>
  PROVE  CapInv'
<1>1. DevicesInv'
  BY DevicesStep DEF CapInv
<1>2. \/ phase = "scan" /\ phase' \in {"scan", "open", "down"}
      \/ phase = "open" /\ phase' \in {"open", "up", "down"}
      \/ phase = "up" /\ phase' = "down"
  BY DEF DevicesNext, ScanMedia, Probe, Override, OpenDevice, Initialised, Terminate, Throw
<1>3. phase' \in {"scan", "open", "up", "down"}
  BY <1>2
<1>4. NothingYet'
  BY <1>2 DEF CapInv, NothingYet
<1>5. phase' = "up" =>
        /\ configs' = [c \in ConfigIds |-> NoProfile] /\ attributes' = [c \in ConfigIds |-> << >>]
        /\ ~surfaces' /\ context' = NoContext
  BY <1>2 DEF CapInv, NothingYet
<1>6. WhileUp'
  <2>1. ASSUME phase' = "up", NEW c \in ConfigIds PROVE ConfigKept(c)'
    BY <1>5, <2>1 DEF ConfigKept
  <2> QED BY <1>5, <2>1 DEF WhileUp
<1>7. ContextDecodesProfile' /\ FormatFound'
  BY <1>5 DEF ContextDecodesProfile, FormatFound
<1> QED BY <1>1, <1>3, <1>4, <1>6, <1>7 DEF CapInv

LEMMA CapInvariant == Spec => []CapInv
<1>1. CapInv /\ [Next]_vars => CapInv'
  <2> SUFFICES ASSUME CapInv, [Next]_vars PROVE CapInv'
    OBVIOUS
  <2>1. CASE UNCHANGED vars
    <3>1. UNCHANGED <<system, phase, todo, probing, paths, fds, devices, capacity, configs,
                      attributes, surfaces, advertised, context, crashed>>
      BY <2>1 DEF vars, deviceVars
    <3>2. DevicesInv'
      <4>1. TableOK(fds)' /\ IsList(devices)'
        BY <3>1 DEF CapInv, DevicesInv
      <4>2. (\A i \in DOMAIN devices : DeviceHeld(devices[i]))'
        BY <3>1 DEF CapInv, DevicesInv, DeviceHeld
      <4>3. NoneShared'
        BY <3>1 DEF CapInv, DevicesInv, NoneShared
      <4>4. Attributed'
        BY <3>1 DEF CapInv, DevicesInv, Attributed
      <4>5. ClosedAtEnd'
        BY <3>1 DEF CapInv, DevicesInv, ClosedAtEnd, LeftOpen
      <4> QED BY <4>1, <4>2, <4>3, <4>4, <4>5 DEF DevicesInv
    <3>3. Supported' = Supported
      BY <3>1 DEF Supported, DeviceProfiles, Decodes, NodeOf, MediaOf
    <3>4. (NothingYet /\ WhileUp)'
      BY <3>1, <3>3 DEF CapInv, NothingYet, WhileUp, ConfigKept, GetConfigAttribute, Matches,
                        NodeOf, MediaOf
    <3>5. (ContextDecodesProfile /\ FormatFound)'
      BY <3>1 DEF CapInv, ContextDecodesProfile, FormatFound, NodeOf, MediaOf
    <3> QED BY <3>1, <3>2, <3>4, <3>5 DEF CapInv
  <2> QED BY <2>1, UseStep, DevicesOnly DEF Next
<1> QED BY <1>1, CapInit, PTL DEF Spec

-----------------------------------------------------------------------------
(* The devices that are found: what is listed of a media device, and what is *)
(* capable of it.                                                            *)

MediaCount == Len(system.media)
NodeCount(m) == Len(system.media[m].nodes)
Listed(m, n) ==
  system.media[m].decoder /\ system.media[m].nodes[n].video /\ system.media[m].nodes[n].known
Capable(m, n) == Listed(m, n) /\ Capabilities(system.media[m].nodes[n]) \cap Required # {}

\* The machine is a list of media devices, each with a list of nodes.
Lists ==
  /\ MediaCount \in Nat /\ DOMAIN system.media = 1 .. MediaCount
  /\ \A m \in 1 .. MediaCount :
       NodeCount(m) \in Nat /\ DOMAIN system.media[m].nodes = 1 .. NodeCount(m)

LEMMA SystemLists == system \in Systems => Lists
<1> SUFFICES ASSUME system \in Systems PROVE Lists
  OBVIOUS
<1>1. IsSystem(system)
  BY SystemsAssumption
<1>2. MediaCount \in Nat /\ DOMAIN system.media = 1 .. MediaCount
  BY <1>1 DEF IsSystem, MediaCount
<1>3. ASSUME NEW m \in 1 .. MediaCount
      PROVE  NodeCount(m) \in Nat /\ DOMAIN system.media[m].nodes = 1 .. NodeCount(m)
  <2>1. system.media[m].nodes \in Seq(Node)
    BY <1>1, <1>2 DEF IsSystem, IsMediaDevice
  <2> QED BY <2>1, LenProperties DEF NodeCount
<1> QED BY <1>2, <1>3 DEF Lists

\* The first k nodes of a media device that are listed, in their order.
Selected(list, k, m) ==
  /\ IsList(list)
  /\ \A i \in 1 .. Len(list) : list[i] \in 1 .. k /\ Listed(m, list[i])
  /\ \A n \in 1 .. k : Listed(m, n) => \E i \in 1 .. Len(list) : list[i] = n
  /\ \A i, j \in 1 .. Len(list) : i < j => list[i] < list[j]

LEMMA SelectedNext ==
  ASSUME NEW list, NEW k \in Nat, NEW m, Selected(list, k, m),
         NEW longer, longer = IF Listed(m, k + 1) THEN Append(list, k + 1) ELSE list
  PROVE  Selected(longer, k + 1, m)
<1>1. /\ IsList(list) /\ Len(list) \in Nat
      /\ \A i \in 1 .. Len(list) : list[i] \in 1 .. k /\ Listed(m, list[i])
      /\ \A n \in 1 .. k : Listed(m, n) => \E i \in 1 .. Len(list) : list[i] = n
      /\ \A i, j \in 1 .. Len(list) : i < j => list[i] < list[j]
  BY DEF Selected, IsList
<1>2. \A n \in 1 .. k + 1 : n \in 1 .. k \/ n = k + 1
  OBVIOUS
<1>3. CASE ~Listed(m, k + 1)
  <2>1. longer = list
    BY <1>3
  <2>2. \A i \in 1 .. Len(list) : list[i] \in 1 .. k + 1
    BY <1>1
  <2>3. \A n \in 1 .. k + 1 : Listed(m, n) => \E i \in 1 .. Len(list) : list[i] = n
    BY <1>1, <1>2, <1>3
  <2> QED BY <1>1, <2>1, <2>2, <2>3 DEF Selected
<1>4. CASE Listed(m, k + 1)
  <2>1. PICK len \in Nat : len = Len(list)
    BY <1>1
  <2>2. /\ IsList(longer) /\ Len(longer) = len + 1
        /\ \A i \in 1 .. len : longer[i] = list[i]
        /\ longer[len + 1] = k + 1
    BY <1>1, <1>4, <2>1, AppendList
  <2>3. \A i \in 1 .. len + 1 : i \in 1 .. len \/ i = len + 1
    OBVIOUS
  <2>4. \A i \in 1 .. len + 1 : longer[i] \in 1 .. k + 1 /\ Listed(m, longer[i])
    BY <1>1, <1>4, <2>1, <2>2, <2>3
  <2>5. ASSUME NEW n \in 1 .. k + 1, Listed(m, n) PROVE \E i \in 1 .. len + 1 : longer[i] = n
    <3>1. CASE n = k + 1
      BY <2>2, <3>1
    <3>2. CASE n \in 1 .. k
      <4>1. PICK i \in 1 .. len : list[i] = n
        BY <1>1, <2>1, <2>5, <3>2
      <4>2. i \in 1 .. len + 1 /\ longer[i] = n
        BY <2>2, <4>1
      <4> QED BY <4>2
    <3> QED BY <1>2, <3>1, <3>2
  <2>6. ASSUME NEW i \in 1 .. len + 1, NEW j \in 1 .. len + 1, i < j PROVE longer[i] < longer[j]
    <3>1. i \in 1 .. len /\ longer[i] = list[i] /\ list[i] \in 1 .. k
      BY <1>1, <2>1, <2>2, <2>6
    <3>2. CASE j \in 1 .. len
      <4>1. longer[j] = list[j]
        BY <2>2, <3>2
      <4> QED BY <1>1, <2>1, <2>6, <3>1, <3>2, <4>1
    <3>3. CASE j = len + 1
      BY <2>2, <3>1, <3>3
    <3> QED BY <2>3, <3>2, <3>3
  <2> QED BY <2>2, <2>4, <2>5, <2>6 DEF Selected
<1> QED BY <1>3, <1>4

LEMMA UpTo ==
  ASSUME NEW n \in Nat, NEW T,
         0 \in T, \A k \in 0 .. n - 1 : k \in T => k + 1 \in T
  PROVE  \A k \in 0 .. n : k \in T
<1> DEFINE Without == {k \in 0 .. n : k \notin T}
<1> SUFFICES ASSUME Without # {} PROVE FALSE
  OBVIOUS
<1>1. PICK least \in Without : \A k \in Without : least <= k
  <2>1. Without \in SUBSET Nat
    OBVIOUS
  <2> HIDE DEF Without
  <2> QED BY <2>1, LeastNumber
<1>2. least # 0 /\ least - 1 \in 0 .. n - 1
  OBVIOUS
<1>3. least - 1 \in T
  BY <1>1, <1>2
<1>4. (least - 1) + 1 \in T
  BY <1>2, <1>3
<1> QED BY <1>1, <1>4

\* The loop over the interfaces.
LEMMA LoopExists ==
  ASSUME NEW m, NEW len \in Nat
  PROVE  \E f : f = [n \in 0 .. len |-> IF n = 0 THEN << >>
                       ELSE IF Listed(m, n) THEN Append(f[n - 1], n) ELSE f[n - 1]]
<1> DEFINE T == {k \in Nat : \E f : f = [n \in 0 .. k |-> IF n = 0 THEN << >>
                                  ELSE IF Listed(m, n) THEN Append(f[n - 1], n) ELSE f[n - 1]]}
<1>1. 0 \in T
  <2> DEFINE f == [n \in 0 .. 0 |-> << >>]
  <2>1. f = [n \in 0 .. 0 |-> IF n = 0 THEN << >>
               ELSE IF Listed(m, n) THEN Append(f[n - 1], n) ELSE f[n - 1]]
    OBVIOUS
  <2> HIDE DEF f
  <2> QED BY <2>1
<1>2. ASSUME NEW k \in Nat, k \in T PROVE k + 1 \in T
  <2>1. PICK f : f = [n \in 0 .. k |-> IF n = 0 THEN << >>
                        ELSE IF Listed(m, n) THEN Append(f[n - 1], n) ELSE f[n - 1]]
    BY <1>2
  <2> DEFINE next == IF Listed(m, k + 1) THEN Append(f[k], k + 1) ELSE f[k]
             g == [n \in 0 .. k + 1 |-> IF n <= k THEN f[n] ELSE next]
  <2>2. \A n \in 0 .. k : f[n] = IF n = 0 THEN << >>
                                 ELSE IF Listed(m, n) THEN Append(f[n - 1], n) ELSE f[n - 1]
    BY <2>1
  <2>3. ASSUME NEW n \in 0 .. k + 1
        PROVE  g[n] = IF n = 0 THEN << >>
                      ELSE IF Listed(m, n) THEN Append(g[n - 1], n) ELSE g[n - 1]
    <3>1. CASE n = 0
      BY <2>2, <3>1
    <3>2. CASE n \in 1 .. k
      <4>1. g[n] = f[n] /\ g[n - 1] = f[n - 1] /\ n # 0
        BY <3>2
      <4> QED BY <2>2, <3>2, <4>1
    <3>3. CASE n = k + 1
      <4>1. g[n] = next /\ g[n - 1] = f[k] /\ n # 0
        BY <3>3
      <4> QED BY <3>3, <4>1
    <3> QED BY <3>1, <3>2, <3>3
  <2>4. g = [n \in 0 .. k + 1 |-> IF n = 0 THEN << >>
               ELSE IF Listed(m, n) THEN Append(g[n - 1], n) ELSE g[n - 1]]
    <3>1. g = [n \in 0 .. k + 1 |-> g[n]]
      OBVIOUS
    <3> HIDE DEF g
    <3> QED BY <2>3, <3>1
  <2>5. \E h : h = [n \in 0 .. k + 1 |-> IF n = 0 THEN << >>
                      ELSE IF Listed(m, n) THEN Append(h[n - 1], n) ELSE h[n - 1]]
    <3> HIDE DEF g
    <3> QED BY <2>4
  <2>6. k + 1 \in Nat
    OBVIOUS
  <2> QED BY <2>5, <2>6, Zenon
<1>3. \A k \in 0 .. len : k \in T
  <2>1. \A k \in 0 .. len - 1 : k \in T => k + 1 \in T
    BY <1>2
  <2> HIDE DEF T
  <2> QED BY <1>1, <2>1, UpTo
<1>4. len \in T
  <2> HIDE DEF T
  <2> QED BY <1>3
<1> QED BY <1>4, Zenon

\* enumerate_video_devices lists the nodes that are video devices, in their order.
LEMMA InterfacesSelected ==
  ASSUME NEW m, NodeCount(m) \in Nat
  PROVE  Selected(Interfaces(m), NodeCount(m), m)
<1>1. PICK len \in Nat : len = NodeCount(m)
  OBVIOUS
<1> DEFINE f == CHOOSE f : f = [n \in 0 .. len |-> IF n = 0 THEN << >>
                              ELSE IF Listed(m, n) THEN Append(f[n - 1], n) ELSE f[n - 1]]
<1>2. Interfaces(m) = f[len]
  BY <1>1 DEF Interfaces, NodeCount, Listed
<1>3. f = [n \in 0 .. len |-> IF n = 0 THEN << >>
             ELSE IF Listed(m, n) THEN Append(f[n - 1], n) ELSE f[n - 1]]
  BY LoopExists
<1> HIDE DEF f
<1> DEFINE T == {k \in 0 .. len : Selected(f[k], k, m)}
<1>4. 0 \in T
  <2>1. f[0] = << >>
    BY <1>3
  <2>2. Selected(<< >>, 0, m)
    BY DEF Selected, IsList
  <2> QED BY <2>1, <2>2
<1>5. ASSUME NEW k \in 0 .. len - 1, k \in T PROVE k + 1 \in T
  <2>1. k \in Nat /\ k + 1 \in 0 .. len /\ k + 1 # 0 /\ (k + 1) - 1 = k
    OBVIOUS
  <2>2. f[k + 1] = IF Listed(m, k + 1) THEN Append(f[k], k + 1) ELSE f[k]
    BY <1>3, <2>1
  <2>3. PICK list, longer : list = f[k] /\ longer = f[k + 1]
    OBVIOUS
  <2>4. Selected(list, k, m) /\ longer = IF Listed(m, k + 1) THEN Append(list, k + 1) ELSE list
    BY <1>5, <2>2, <2>3
  <2>5. Selected(longer, k + 1, m)
    BY <2>1, <2>4, SelectedNext
  <2> QED BY <2>1, <2>3, <2>5
<1>6. \A k \in 0 .. len : k \in T
  <2> HIDE DEF T
  <2> QED BY <1>4, <1>5, UpTo
<1> QED BY <1>1, <1>2, <1>6

-----------------------------------------------------------------------------
(* Lists of what was found, in the order of the machine. *)

Before(p, q) == p[1] < q[1] \/ (p[1] = q[1] /\ p[2] < q[2])
Ordered(list) == \A i, j \in 1 .. Len(list) : i < j => Before(list[i], list[j])
AllBefore(list, others) ==
  \A i \in 1 .. Len(list), j \in 1 .. Len(others) : Before(list[i], others[j])
Elements(list) == {list[i] : i \in 1 .. Len(list)}

LEMMA MappedList ==
  ASSUME NEW n \in Nat, NEW f, f = [i \in 1 .. n |-> f[i]]
  PROVE  IsList(f) /\ Len(f) = n /\ DOMAIN f = 1 .. n
<1> DEFINE S == {f[i] : i \in 1 .. n}
<1>1. f \in [1 .. n -> S]
  <2>1. \A i \in 1 .. n : f[i] \in S
    OBVIOUS
  <2> HIDE DEF S
  <2> QED BY <2>1
<1>2. f \in Seq(S)
  BY <1>1, SeqDef
<1> HIDE DEF S
<1>3. Len(f) \in Nat /\ DOMAIN f = 1 .. Len(f)
  BY <1>2, LenProperties
<1>4. Len(f) = n
  BY <1>1, <1>2, LenProperties
<1> QED BY <1>3, <1>4 DEF IsList

LEMMA TailList ==
  ASSUME NEW list, IsList(list), list # << >>
  PROVE  /\ Len(list) \in Nat \ {0} /\ Head(list) = list[1]
         /\ IsList(Tail(list)) /\ Len(Tail(list)) = Len(list) - 1
         /\ \A i \in 1 .. Len(list) - 1 : Tail(list)[i] = list[i + 1]
<1> DEFINE S == {list[i] : i \in 1 .. Len(list)}
<1>1. list \in Seq(S)
  <2>1. \A i \in 1 .. Len(list) : list[i] \in S
    OBVIOUS
  <2>2. list \in [1 .. Len(list) -> S] /\ Len(list) \in Nat
    BY <2>1 DEF IsList
  <2> QED BY <2>2, SeqDef
<1> HIDE DEF S
<1>2. /\ Head(list) = list[1] /\ Tail(list) \in Seq(S) /\ Len(Tail(list)) = Len(list) - 1
      /\ \A i \in 1 .. Len(Tail(list)) : Tail(list)[i] = list[i + 1]
  BY <1>1, HeadTailProperties
<1>3. Len(list) \in Nat \ {0}
  BY <1>1, EmptySeq, LenProperties
<1>4. IsList(Tail(list))
  BY <1>2, LenProperties DEF IsList
<1> QED BY <1>2, <1>3, <1>4

\* An element that is appended, and the first one that is taken away.
LEMMA AppendedElements ==
  ASSUME NEW list, IsList(list), NEW e
  PROVE  Elements(Append(list, e)) = Elements(list) \cup {e}
<1>1. PICK len \in Nat : len = Len(list)
  BY DEF IsList
<1>2. /\ Len(Append(list, e)) = len + 1 /\ Append(list, e)[len + 1] = e
      /\ \A i \in 1 .. len : Append(list, e)[i] = list[i]
  BY <1>1, AppendList
<1>3. ASSUME NEW x \in Elements(Append(list, e)) PROVE x \in Elements(list) \cup {e}
  <2>1. PICK i \in 1 .. len + 1 : x = Append(list, e)[i]
    BY <1>2 DEF Elements
  <2>2. i \in 1 .. len \/ i = len + 1
    OBVIOUS
  <2> QED BY <1>1, <1>2, <2>1, <2>2 DEF Elements
<1>4. ASSUME NEW x \in Elements(list) \cup {e} PROVE x \in Elements(Append(list, e))
  <2>1. CASE x = e
    <3>1. len + 1 \in 1 .. len + 1
      OBVIOUS
    <3> QED BY <1>2, <2>1, <3>1 DEF Elements
  <2>2. CASE x \in Elements(list)
    <3>1. PICK i \in 1 .. len : x = list[i]
      BY <1>1, <2>2 DEF Elements
    <3>2. i \in 1 .. len + 1
      OBVIOUS
    <3> QED BY <1>2, <3>1, <3>2 DEF Elements
  <2> QED BY <1>4, <2>1, <2>2
<1> QED BY <1>3, <1>4

LEMMA TailElements ==
  ASSUME NEW list, IsList(list), list # << >>
  PROVE  Elements(list) = {Head(list)} \cup Elements(Tail(list))
<1>1. PICK len \in Nat \ {0} : len = Len(list)
  BY TailList
<1>2. /\ Head(list) = list[1] /\ Len(Tail(list)) = len - 1
      /\ \A i \in 1 .. len - 1 : Tail(list)[i] = list[i + 1]
  BY <1>1, TailList
<1>3. ASSUME NEW x \in Elements(list) PROVE x \in {Head(list)} \cup Elements(Tail(list))
  <2>1. PICK i \in 1 .. len : x = list[i]
    BY <1>1 DEF Elements
  <2>2. CASE i = 1
    BY <1>2, <2>1, <2>2
  <2>3. CASE i # 1
    <3>1. i - 1 \in 1 .. len - 1 /\ (i - 1) + 1 = i
      BY <2>3
    <3>2. x = Tail(list)[i - 1]
      BY <1>2, <2>1, <3>1
    <3> QED BY <1>2, <3>1, <3>2 DEF Elements
  <2> QED BY <2>2, <2>3
<1>4. ASSUME NEW x \in {Head(list)} \cup Elements(Tail(list)) PROVE x \in Elements(list)
  <2>1. CASE x = Head(list)
    <3>1. 1 \in 1 .. len
      OBVIOUS
    <3> QED BY <1>1, <1>2, <2>1, <3>1 DEF Elements
  <2>2. CASE x \in Elements(Tail(list))
    <3>1. PICK i \in 1 .. len - 1 : x = Tail(list)[i]
      BY <1>2, <2>2 DEF Elements
    <3>2. i + 1 \in 1 .. len /\ x = list[i + 1]
      BY <1>2, <3>1
    <3> QED BY <1>1, <3>2 DEF Elements
  <2> QED BY <1>4, <2>1, <2>2
<1> QED BY <1>3, <1>4

\* The first of one list goes behind another: what is left is still behind.
LEMMA FrontMoves ==
  ASSUME NEW list, NEW others, IsList(list), IsList(others), others # << >>,
         Ordered(list), Ordered(others), AllBefore(list, others),
         NEW e, e[1] = others[1][1], e[2] = others[1][2]
  PROVE  /\ Ordered(Tail(others)) /\ AllBefore(list, Tail(others))
         /\ Ordered(Append(list, e)) /\ AllBefore(Append(list, e), Tail(others))
<1>1. PICK len \in Nat : len = Len(list)
  BY DEF IsList
<1>2. PICK more \in Nat \ {0} : more = Len(others)
  BY TailList
<1>3. /\ Len(Tail(others)) = more - 1
      /\ \A i \in 1 .. more - 1 : Tail(others)[i] = others[i + 1]
  BY <1>2, TailList
<1>4. /\ Len(Append(list, e)) = len + 1 /\ Append(list, e)[len + 1] = e
      /\ \A i \in 1 .. len : Append(list, e)[i] = list[i]
  BY <1>1, AppendList
<1>5. /\ \A i, j \in 1 .. more : i < j => Before(others[i], others[j])
      /\ \A i \in 1 .. len, j \in 1 .. more : Before(list[i], others[j])
      /\ \A i, j \in 1 .. len : i < j => Before(list[i], list[j])
  BY <1>1, <1>2 DEF Ordered, AllBefore
<1>6. \A i \in 1 .. more - 1 : i + 1 \in 1 .. more /\ 1 < i + 1
  OBVIOUS
<1>7. 1 \in 1 .. more
  OBVIOUS
<1>8. \A i \in 1 .. len + 1 : i \in 1 .. len \/ i = len + 1
  OBVIOUS
<1>9. Ordered(Tail(others))
  <2> SUFFICES ASSUME NEW i \in 1 .. more - 1, NEW j \in 1 .. more - 1, i < j
               PROVE  Before(Tail(others)[i], Tail(others)[j])
    BY <1>3 DEF Ordered
  <2>1. i + 1 < j + 1
    OBVIOUS
  <2> QED BY <1>3, <1>5, <1>6, <2>1
<1>10. AllBefore(list, Tail(others))
  <2> SUFFICES ASSUME NEW i \in 1 .. len, NEW j \in 1 .. more - 1
               PROVE  Before(list[i], Tail(others)[j])
    BY <1>1, <1>3 DEF AllBefore
  <2> QED BY <1>3, <1>5, <1>6
<1>11. \A j \in 1 .. more - 1 : Before(e, Tail(others)[j])
  <2> SUFFICES ASSUME NEW j \in 1 .. more - 1 PROVE Before(e, Tail(others)[j])
    OBVIOUS
  <2>1. Before(others[1], others[j + 1]) /\ Tail(others)[j] = others[j + 1]
    BY <1>3, <1>5, <1>6, <1>7
  <2> QED BY <2>1 DEF Before
<1>12. \A i \in 1 .. len : Before(list[i], e)
  <2> SUFFICES ASSUME NEW i \in 1 .. len PROVE Before(list[i], e)
    OBVIOUS
  <2>1. Before(list[i], others[1])
    BY <1>5, <1>7
  <2> QED BY <2>1 DEF Before
<1>13. Ordered(Append(list, e))
  <2> SUFFICES ASSUME NEW i \in 1 .. len + 1, NEW j \in 1 .. len + 1, i < j
               PROVE  Before(Append(list, e)[i], Append(list, e)[j])
    BY <1>4 DEF Ordered
  <2>1. i \in 1 .. len
    OBVIOUS
  <2> QED BY <1>4, <1>5, <1>8, <1>12, <2>1
<1>14. AllBefore(Append(list, e), Tail(others))
  <2> SUFFICES ASSUME NEW i \in 1 .. len + 1, NEW j \in 1 .. more - 1
               PROVE  Before(Append(list, e)[i], Tail(others)[j])
    BY <1>3, <1>4 DEF AllBefore
  <2>1. Before(list[i], Tail(others)[j]) \/ i = len + 1
    BY <1>1, <1>3, <1>8, <1>10 DEF AllBefore
  <2> QED BY <1>4, <1>8, <1>11, <1>3, <1>5, <1>6
<1> QED BY <1>9, <1>10, <1>13, <1>14

-----------------------------------------------------------------------------
(* The search.  What is capable of it is in the lists, in the order of the   *)
(* machine, as long as its media device has been scanned.                    *)

IsPath(p) ==
  \E m \in 1 .. MediaCount : \E n \in 1 .. NodeCount(m) : p = <<m, n, TRUE>> /\ Capable(m, n)
IsListed(p) ==
  \E m \in 1 .. MediaCount : \E n \in 1 .. NodeCount(m) : p = <<m, n>> /\ Listed(m, n)
PathList(list) == IsList(list) /\ Ordered(list) /\ \A p \in Elements(list) : IsPath(p)
ListedList(list) == IsList(list) /\ Ordered(list) /\ \A p \in Elements(list) : IsListed(p)

Scanned == MediaCount - Len(todo)

Scanning ==
  /\ IsList(todo) /\ Len(todo) <= MediaCount
  /\ \A i \in 1 .. Len(todo) : todo[i] = Scanned + i
  /\ devices = << >> /\ PathList(paths) /\ ListedList(probing) /\ AllBefore(paths, probing)
  /\ \A p \in Elements(paths) : p[1] <= Scanned
  /\ \A p \in Elements(probing) : p[1] <= Scanned
  /\ \A m \in 1 .. Scanned : \A n \in 1 .. NodeCount(m) : Capable(m, n) =>
       <<m, n, TRUE>> \in Elements(paths) \/ <<m, n>> \in Elements(probing)

OpenedPaths == [i \in 1 .. Len(devices) |-> devices[i].path]

OpeningFound ==
  /\ IsList(devices) /\ PathList(OpenedPaths) /\ PathList(paths) /\ AllBefore(OpenedPaths, paths)
  /\ \A m \in 1 .. MediaCount : \A n \in 1 .. NodeCount(m) : Capable(m, n) =>
       <<m, n, TRUE>> \in Elements(OpenedPaths) \/ <<m, n, TRUE>> \in Elements(paths)

FoundInv ==
  /\ system \in Systems
  /\ phase = "scan" => Scanning
  /\ phase \in {"open", "up"} /\ system.override = << >> => OpeningFound
  /\ phase = "up" => paths = << >>

\* A path is the media device and the node, and whether there is a media device.
LEMMA PathOf ==
  ASSUME NEW m, NEW n, NEW b
  PROVE  /\ Append(<<m, n>>, b) = <<m, n, b>>
         /\ SubSeq(<<m, n, b>>, 1, 2) = <<m, n>>
<1> DEFINE S == {m, n, b}
           short == <<m, n>>
           long == <<m, n, b>>
<1>1. short \in Seq(S) /\ Len(short) = 2 /\ short[1] = m /\ short[2] = n /\ b \in S
  OBVIOUS
<1>2. long \in Seq(S) /\ Len(long) = 3 /\ long[1] = m /\ long[2] = n /\ long[3] = b
  OBVIOUS
<1> HIDE DEF S, short, long
<1>3. /\ Append(short, b) \in Seq(S) /\ Len(Append(short, b)) = 3
      /\ Append(short, b)[1] = m /\ Append(short, b)[2] = n /\ Append(short, b)[3] = b
  <2>1. short \in Seq(S) /\ b \in S
    BY <1>1
  <2>2. /\ Append(short, b) \in Seq(S) /\ Len(Append(short, b)) = Len(short) + 1
        /\ \A i \in 1 .. Len(short) : Append(short, b)[i] = short[i]
        /\ Append(short, b)[Len(short) + 1] = b
    BY <2>1, AppendProperties
  <2>3. 1 \in 1 .. 2 /\ 2 \in 1 .. 2 /\ 2 + 1 = 3
    OBVIOUS
  <2> QED BY <1>1, <2>2, <2>3
<1>4. Append(short, b) = long
  <2>1. \A i \in 1 .. 3 : i = 1 \/ i = 2 \/ i = 3
    OBVIOUS
  <2>2. \A i \in 1 .. 3 : Append(short, b)[i] = long[i]
    BY <1>2, <1>3, <2>1
  <2> QED BY <1>2, <1>3, <2>2, SeqEqual
<1>5. SubSeq(long, 1, 2) = short
  <2>1. /\ SubSeq(long, 1, 2) \in Seq(S) /\ Len(SubSeq(long, 1, 2)) = 2
        /\ SubSeq(long, 1, 2)[1] = m /\ SubSeq(long, 1, 2)[2] = n
    BY <1>2, SubSeqProperties
  <2>2. \A i \in 1 .. 2 : i = 1 \/ i = 2
    OBVIOUS
  <2>3. \A i \in 1 .. 2 : SubSeq(long, 1, 2)[i] = short[i]
    BY <1>1, <2>1, <2>2
  <2> QED BY <1>1, <2>1, <2>3, SeqEqual
<1> QED BY <1>4, <1>5 DEF short, long

LEMMA EmptyList ==
  IsList(<< >>) /\ Len(<< >>) = 0 /\ Ordered(<< >>) /\ Elements(<< >>) = {}
BY DEF IsList, Ordered, Elements

LEMMA FoundInit == Init => FoundInv
<1> SUFFICES ASSUME Init PROVE FoundInv
  OBVIOUS
<1>1. /\ system \in Systems /\ phase = "scan" /\ todo = [m \in DOMAIN system.media |-> m]
      /\ probing = << >> /\ paths = << >> /\ devices = << >>
  BY DEF Init, DevicesInit
<1>2. PICK count \in Nat : count = MediaCount
  BY <1>1, SystemLists DEF Lists
<1>3. todo = [m \in 1 .. count |-> m]
  BY <1>1, <1>2, SystemLists DEF Lists
<1>4. todo = [m \in 1 .. count |-> todo[m]]
  BY <1>3
<1>5. IsList(todo) /\ Len(todo) = count
  BY <1>4, MappedList
<1>6. Scanned = 0
  BY <1>2, <1>5 DEF Scanned
<1>7. \A i \in 1 .. Len(todo) : todo[i] = Scanned + i
  BY <1>3, <1>5, <1>6
<1>8. AllBefore(paths, probing)
  BY <1>1, EmptyList DEF AllBefore
<1>9. PathList(paths) /\ ListedList(probing)
  BY <1>1, EmptyList DEF PathList, ListedList
<1>10. Scanning
  BY <1>1, <1>2, <1>5, <1>6, <1>7, <1>8, <1>9, EmptyList DEF Scanning
<1> QED BY <1>1, <1>10 DEF FoundInv

\* An exception ends the search.
LEMMA ThrownFound == ASSUME FoundInv, NEW table, Throw(table), system' = system PROVE FoundInv'
BY DEF FoundInv, Throw

\* The next media device: its video devices come behind all that were found.
LEMMA ScanStep == FoundInv /\ ScanMedia => FoundInv'
<1> SUFFICES ASSUME FoundInv, ScanMedia PROVE FoundInv'
  OBVIOUS
<1>1. CASE ~system.media[Head(todo)].opens
  <2>1. Throw(fds) /\ system' = system
    BY <1>1 DEF ScanMedia
  <2> QED BY <2>1, ThrownFound
<1>2. CASE system.media[Head(todo)].opens /\ system.media[Head(todo)].answers
  <2> DEFINE m == Head(todo)
             list == Interfaces(m)
  <2>1. /\ phase = "scan" /\ probing = << >> /\ todo # << >> /\ todo' = Tail(todo)
        /\ probing' = [n \in DOMAIN list |-> <<m, list[n]>>]
        /\ phase' = "scan" /\ paths' = paths /\ devices' = devices /\ system' = system
    BY <1>2 DEF ScanMedia
  <2>2. Scanning /\ system \in Systems
    BY <2>1 DEF FoundInv
  <2>3. PICK count \in Nat : count = MediaCount
    BY <2>2, SystemLists DEF Lists
  <2>4. PICK left \in Nat \ {0} : left = Len(todo)
    BY <2>1, <2>2, TailList DEF Scanning
  <2>5. PICK scanned \in Nat : scanned = Scanned
    <3>1. left <= count
      BY <2>2, <2>3, <2>4 DEF Scanning
    <3> QED BY <2>3, <2>4, <3>1 DEF Scanned
  <2>6. scanned = count - left
    BY <2>3, <2>4, <2>5 DEF Scanned
  <2>7. m = scanned + 1
    <3>1. m = todo[1]
      BY <2>1, <2>2, TailList DEF Scanning
    <3>2. 1 \in 1 .. left /\ \A i \in 1 .. left : todo[i] = scanned + i
      BY <2>2, <2>4, <2>5 DEF Scanning
    <3> QED BY <3>1, <3>2
  <2>8. m \in 1 .. count
    BY <2>3, <2>4, <2>6, <2>7
  <2>9. PICK nodes \in Nat : nodes = NodeCount(m)
    BY <2>2, <2>3, <2>8, SystemLists DEF Lists
  <2>10. Selected(list, nodes, m)
    <3> HIDE DEF m
    <3> QED BY <2>9, InterfacesSelected
  <2> HIDE DEF m, list
  <2>11. PICK len \in Nat : len = Len(list)
    BY <2>10 DEF Selected, IsList
  <2>12. /\ DOMAIN list = 1 .. len
         /\ \A i \in 1 .. len : list[i] \in 1 .. nodes /\ Listed(m, list[i])
         /\ \A n \in 1 .. nodes : Listed(m, n) => \E i \in 1 .. len : list[i] = n
         /\ \A i, j \in 1 .. len : i < j => list[i] < list[j]
    BY <2>10, <2>11 DEF Selected, IsList
  <2>13. \A i \in 1 .. len : probing'[i] = <<m, list[i]>>
    BY <2>1, <2>12
  <2>14. IsList(probing') /\ Len(probing') = len
    <3>1. probing' = [i \in 1 .. len |-> probing'[i]]
      BY <2>1, <2>12
    <3> QED BY <3>1, MappedList
  <2>15. Ordered(probing')
    <3> SUFFICES ASSUME NEW i \in 1 .. len, NEW j \in 1 .. len, i < j
                 PROVE  Before(probing'[i], probing'[j])
      BY <2>14 DEF Ordered
    <3>1. list[i] < list[j] /\ probing'[i] = <<m, list[i]>> /\ probing'[j] = <<m, list[j]>>
      BY <2>12, <2>13
    <3> QED BY <3>1 DEF Before
  <2>16. ASSUME NEW p \in Elements(probing') PROVE IsListed(p) /\ p[1] = m
    <3>1. PICK i \in 1 .. len : p = probing'[i]
      BY <2>14 DEF Elements
    <3>2. p = <<m, list[i]>> /\ list[i] \in 1 .. nodes /\ Listed(m, list[i])
      BY <2>12, <2>13, <3>1
    <3>3. IsListed(p)
      BY <2>3, <2>8, <2>9, <3>2, Zenon DEF IsListed
    <3> QED BY <3>2, <3>3
  <2>17. \A p \in Elements(paths) : p[1] \in Nat /\ p[1] <= scanned
    <3>1. \A p \in Elements(paths) : p[1] <= scanned /\ IsPath(p)
      BY <2>2, <2>5 DEF Scanning, PathList
    <3>2. \A p : IsPath(p) => p[1] \in Nat
      BY <2>3 DEF IsPath
    <3> QED BY <3>1, <3>2
  <2>18. AllBefore(paths, probing')
    <3> SUFFICES ASSUME NEW i \in 1 .. Len(paths), NEW j \in 1 .. len
                 PROVE  Before(paths[i], probing'[j])
      BY <2>14 DEF AllBefore
    <3>1. paths[i][1] \in Nat /\ paths[i][1] <= scanned
      BY <2>17 DEF Elements
    <3>2. probing'[j][1] = scanned + 1
      BY <2>7, <2>13
    <3> QED BY <3>1, <3>2 DEF Before
  <2>19. ASSUME NEW k \in 1 .. scanned + 1, NEW n \in 1 .. NodeCount(k), Capable(k, n)
         PROVE  <<k, n, TRUE>> \in Elements(paths) \/ <<k, n>> \in Elements(probing')
    <3>1. CASE k = m
      <4>1. n \in 1 .. nodes /\ Listed(m, n)
        BY <2>9, <2>19, <3>1 DEF Capable
      <4>2. PICK i \in 1 .. len : list[i] = n
        BY <2>12, <4>1
      <4>3. probing'[i] = <<k, n>>
        BY <2>13, <3>1, <4>2
      <4> QED BY <2>14, <4>2, <4>3 DEF Elements
    <3>2. CASE k # m
      <4>1. k \in 1 .. scanned
        BY <2>7, <3>2
      <4>2. <<k, n, TRUE>> \in Elements(paths) \/ <<k, n>> \in Elements(probing)
        BY <2>2, <2>5, <2>19, <4>1 DEF Scanning
      <4> QED BY <2>1, <4>2, EmptyList
    <3> QED BY <3>1, <3>2
  <2>20. /\ MediaCount' = count
         /\ \A k : NodeCount(k)' = NodeCount(k)
         /\ \A k, n : Capable(k, n)' = Capable(k, n) /\ Listed(k, n)' = Listed(k, n)
    BY <2>1, <2>3 DEF MediaCount, NodeCount, Capable, Listed
  <2>21. /\ IsList(todo') /\ Len(todo') = left - 1
         /\ \A i \in 1 .. left - 1 : todo'[i] = todo[i + 1]
    BY <2>1, <2>2, <2>4, TailList DEF Scanning
  <2>22. Scanned' = scanned + 1
    BY <2>4, <2>6, <2>20, <2>21 DEF Scanned
  <2>23. \A i \in 1 .. left - 1 : todo'[i] = (scanned + 1) + i
    <3> SUFFICES ASSUME NEW i \in 1 .. left - 1 PROVE todo'[i] = (scanned + 1) + i
      OBVIOUS
    <3>1. i + 1 \in 1 .. left
      OBVIOUS
    <3>2. todo[i + 1] = scanned + (i + 1)
      BY <2>2, <2>4, <2>5, <3>1 DEF Scanning
    <3> QED BY <2>21, <3>2
  <2>24. PathList(paths)' /\ ListedList(probing)'
    <3>1. \A p : IsPath(p)' = IsPath(p) /\ IsListed(p)' = IsListed(p)
      BY <2>3, <2>20 DEF IsPath, IsListed
    <3>2. PathList(paths)
      BY <2>2 DEF Scanning
    <3>3. PathList(paths)'
      BY <2>1, <3>1, <3>2 DEF PathList
    <3>4. ListedList(probing)'
      BY <2>14, <2>15, <2>16, <3>1 DEF ListedList
    <3> QED BY <3>3, <3>4
  <2>25. Len(todo') <= MediaCount'
    BY <2>3, <2>4, <2>20, <2>21, <2>22, <2>6
  <2>26. /\ \A p \in Elements(paths') : p[1] <= Scanned'
         /\ \A p \in Elements(probing') : p[1] <= Scanned'
    BY <2>1, <2>7, <2>16, <2>17, <2>22
  <2>27. \A k \in 1 .. Scanned' : \A n \in 1 .. NodeCount(k)' : Capable(k, n)' =>
           <<k, n, TRUE>> \in Elements(paths') \/ <<k, n>> \in Elements(probing')
    BY <2>1, <2>19, <2>20, <2>22
  <2>28. devices' = << >> /\ AllBefore(paths', probing')
    BY <2>1, <2>2, <2>18 DEF Scanning
  <2>29. \A i \in 1 .. Len(todo') : todo'[i] = Scanned' + i
    BY <2>21, <2>22, <2>23
  <2>30. Scanning'
    BY <2>21, <2>24, <2>25, <2>26, <2>27, <2>28, <2>29 DEF Scanning
  <2> QED BY <2>1, <2>2, <2>30 DEF FoundInv
<1>3. CASE system.media[Head(todo)].opens /\ ~system.media[Head(todo)].answers
  <2>1. Throw(Open(fds, "scanned", <<Head(todo)>>)) /\ system' = system
    BY <1>3 DEF ScanMedia
  <2> QED BY <2>1, ThrownFound
<1> QED BY <1>1, <1>2, <1>3

\* A video device that is capable goes behind those found before it.
LEMMA ProbedStep == FoundInv /\ Probe => FoundInv'
<1> SUFFICES ASSUME FoundInv, Probe PROVE FoundInv'
  OBVIOUS
<1> DEFINE p == Head(probing)
           e == Append(p, TRUE)
<1>1. CASE ~NodeOf(p).opens
  <2>1. Throw(fds) /\ system' = system
    BY <1>1 DEF Probe
  <2> QED BY <2>1, ThrownFound
<1>2. CASE NodeOf(p).opens /\ NodeOf(p).answers
  <2>1. /\ phase = "scan" /\ probing # << >> /\ probing' = Tail(probing)
        /\ paths' = IF Capabilities(NodeOf(p)) \cap Required # {} THEN Append(paths, e) ELSE paths
        /\ phase' = "scan" /\ todo' = todo /\ devices' = devices /\ system' = system
    BY <1>2 DEF Probe
  <2>2. Scanning /\ system \in Systems
    BY <2>1 DEF FoundInv
  <2>3. /\ IsList(probing) /\ Ordered(probing) /\ \A q \in Elements(probing) : IsListed(q)
        /\ IsList(paths) /\ Ordered(paths) /\ \A q \in Elements(paths) : IsPath(q)
        /\ AllBefore(paths, probing)
    BY <2>2 DEF Scanning, PathList, ListedList
  <2>4. /\ p = probing[1] /\ IsList(Tail(probing))
        /\ Elements(probing) = {p} \cup Elements(Tail(probing))
    BY <2>1, <2>3, TailList, TailElements
  <2>5. IsListed(p)
    BY <2>3, <2>4
  <2>6. PICK m, n : m \in 1 .. MediaCount /\ n \in 1 .. NodeCount(m) /\ p = <<m, n>> /\ Listed(m, n)
    <3> HIDE DEF p
    <3> QED BY <2>5 DEF IsListed
  <2>7. e = <<m, n, TRUE>>
    <3> HIDE DEF p
    <3> QED BY <2>6, PathOf
  <2>8. Capabilities(NodeOf(p)) \cap Required # {} <=> Capable(m, n)
    <3> HIDE DEF p
    <3>1. NodeOf(p) = system.media[m].nodes[n]
      BY <2>6 DEF NodeOf, MediaOf
    <3> QED BY <2>6, <3>1 DEF Capable
  <2>9. e[1] = probing[1][1] /\ e[2] = probing[1][2]
    <3>1. e[1] = m /\ e[2] = n
      <4> HIDE DEF e
      <4> QED BY <2>7
    <3>2. probing[1][1] = m /\ probing[1][2] = n
      <4> HIDE DEF p
      <4> QED BY <2>4, <2>6
    <3> QED BY <3>1, <3>2
  <2> HIDE DEF e, p
  <2>10. /\ Ordered(Tail(probing)) /\ AllBefore(paths, Tail(probing))
         /\ Ordered(Append(paths, e)) /\ AllBefore(Append(paths, e), Tail(probing))
    BY <2>1, <2>3, <2>9, FrontMoves
  <2>11. IsList(Append(paths, e)) /\ Elements(Append(paths, e)) = Elements(paths) \cup {e}
    BY <2>3, AppendList, AppendedElements
  <2>12. /\ MediaCount' = MediaCount /\ Scanned' = Scanned
         /\ \A k : NodeCount(k)' = NodeCount(k)
         /\ \A k, l : Capable(k, l)' = Capable(k, l) /\ Listed(k, l)' = Listed(k, l)
    BY <2>1 DEF MediaCount, NodeCount, Capable, Listed, Scanned
  <2>13. \A q : IsPath(q)' = IsPath(q) /\ IsListed(q)' = IsListed(q)
    BY <2>12 DEF IsPath, IsListed
  <2>14. ListedList(probing)'
    BY <2>1, <2>3, <2>4, <2>10, <2>13 DEF ListedList
  <2>15. p \in Elements(probing) /\ p[1] = m
    BY <2>4, <2>6
  <2>16. m <= Scanned
    BY <2>2, <2>15 DEF Scanning
  <2>17. CASE Capable(m, n)
    <3>1. paths' = Append(paths, e)
      BY <2>1, <2>8, <2>17
    <3>2. IsPath(e)
      BY <2>6, <2>7, <2>17 DEF IsPath
    <3>3. PathList(paths)' /\ AllBefore(paths', probing')
      BY <2>1, <2>3, <2>10, <2>11, <2>13, <3>1, <3>2 DEF PathList
    <3>4. ASSUME NEW k \in 1 .. Scanned, NEW l \in 1 .. NodeCount(k), Capable(k, l)
          PROVE  <<k, l, TRUE>> \in Elements(paths') \/ <<k, l>> \in Elements(probing')
      <4>1. <<k, l, TRUE>> \in Elements(paths) \/ <<k, l>> \in Elements(probing)
        BY <2>2, <3>4 DEF Scanning
      <4>2. <<k, l>> = p => <<k, l, TRUE>> = e
        BY <2>6, <2>7
      <4> QED BY <2>1, <2>4, <2>11, <3>1, <4>1, <4>2
    <3>5. \A q \in Elements(paths') : q[1] <= Scanned
      <4>1. e[1] = m
        BY <2>7
      <4> QED BY <2>2, <2>11, <2>16, <3>1, <4>1 DEF Scanning
    <3>6. \A q \in Elements(probing') : q[1] <= Scanned
      BY <2>1, <2>2, <2>4 DEF Scanning
    <3>7. Scanning'
      BY <2>1, <2>2, <2>12, <2>14, <3>3, <3>4, <3>5, <3>6 DEF Scanning
    <3> QED BY <2>1, <2>2, <3>7 DEF FoundInv
  <2>18. CASE ~Capable(m, n)
    <3>1. paths' = paths
      BY <2>1, <2>8, <2>18
    <3>2. PathList(paths)' /\ AllBefore(paths', probing')
      BY <2>1, <2>3, <2>10, <2>13, <3>1 DEF PathList
    <3>3. ASSUME NEW k \in 1 .. Scanned, NEW l \in 1 .. NodeCount(k), Capable(k, l)
          PROVE  <<k, l, TRUE>> \in Elements(paths') \/ <<k, l>> \in Elements(probing')
      <4>1. <<k, l, TRUE>> \in Elements(paths) \/ <<k, l>> \in Elements(probing)
        BY <2>2, <3>3 DEF Scanning
      <4>2. <<k, l>> # p
        BY <2>6, <2>18, <3>3
      <4> QED BY <2>1, <2>4, <3>1, <4>1, <4>2
    <3>4. \A q \in Elements(probing') : q[1] <= Scanned
      BY <2>1, <2>2, <2>4 DEF Scanning
    <3>5. \A q \in Elements(paths') : q[1] <= Scanned
      BY <2>2, <3>1 DEF Scanning
    <3>6. Scanning'
      BY <2>1, <2>2, <2>12, <2>14, <3>2, <3>3, <3>4, <3>5 DEF Scanning
    <3> QED BY <2>1, <2>2, <3>6 DEF FoundInv
  <2> QED BY <2>17, <2>18
<1>3. CASE NodeOf(p).opens /\ ~NodeOf(p).answers
  <2>1. Throw(Open(fds, "probed", p)) /\ system' = system
    BY <1>3 DEF Probe
  <2> QED BY <2>1, ThrownFound
<1> QED BY <1>1, <1>2, <1>3

\* When nothing is left to scan, what is capable has been found.
LEMMA OverrideStep == FoundInv /\ Override => FoundInv'
<1> SUFFICES ASSUME FoundInv, Override PROVE FoundInv'
  OBVIOUS
<1>1. /\ phase = "scan" /\ phase' = "open" /\ probing = << >> /\ todo = << >>
      /\ system' = system /\ devices' = devices
      /\ paths' = IF system.override # << >> THEN <<system.override>> ELSE paths
  BY DEF Override
<1>2. Scanning /\ system \in Systems
  BY <1>1 DEF FoundInv
<1>3. ASSUME system.override = << >> PROVE OpeningFound'
  <2>1. paths' = paths /\ devices' = << >>
    BY <1>1, <1>2, <1>3 DEF Scanning
  <2>2. Scanned = MediaCount
    <3>1. MediaCount \in Nat
      BY <1>2, SystemLists DEF Lists
    <3> QED BY <1>1, <3>1, EmptyList DEF Scanned
  <2>3. /\ MediaCount' = MediaCount
        /\ \A k : NodeCount(k)' = NodeCount(k)
        /\ \A k, l : Capable(k, l)' = Capable(k, l)
    BY <1>1 DEF MediaCount, NodeCount, Capable, Listed
  <2>4. \A q : IsPath(q)' = IsPath(q)
    BY <2>3 DEF IsPath
  <2>5. PathList(paths)'
    BY <1>2, <2>1, <2>4 DEF Scanning, PathList
  <2>6. OpenedPaths' = << >> /\ IsList(devices')
    <3>1. OpenedPaths' = [i \in 1 .. 0 |-> devices'[i].path]
      BY <2>1, EmptyList DEF OpenedPaths
    <3> QED BY <2>1, <3>1, EmptyList
  <2>7. PathList(OpenedPaths)' /\ AllBefore(OpenedPaths', paths')
    BY <2>6, EmptyList DEF PathList, AllBefore
  <2>8. ASSUME NEW k \in 1 .. MediaCount, NEW l \in 1 .. NodeCount(k), Capable(k, l)
        PROVE  <<k, l, TRUE>> \in Elements(paths')
    BY <1>1, <1>2, <2>1, <2>2, <2>8, EmptyList DEF Scanning
  <2> QED BY <2>3, <2>5, <2>6, <2>7, <2>8 DEF OpeningFound
<1> QED BY <1>1, <1>2, <1>3 DEF FoundInv

\* The next path is opened, behind the devices opened before it.
LEMMA OpenedStep == FoundInv /\ OpenDevice => FoundInv'
<1> SUFFICES ASSUME FoundInv, OpenDevice PROVE FoundInv'
  OBVIOUS
<1> DEFINE e == Head(paths)
<1>1. system' = system /\ phase = "open" /\ paths # << >> /\ system \in Systems
  BY DEF OpenDevice, FoundInv
<1>2. \/ phase' = "down"
      \/ \E d : /\ d.path = e /\ devices' = Append(devices, d)
                /\ paths' = Tail(paths) /\ phase' = "open"
  <2> DEFINE media == IF e[3] THEN Open(Open(fds, "video", e), "media", e) ELSE Open(fds, "video", e)
             device == [video_fd |-> NextFd(DOMAIN fds),
                        media_fd |-> IF e[3] THEN NextFd(DOMAIN Open(fds, "video", e)) ELSE NoFd,
                        path |-> e]
  <2>1. \/ Throw(fds) \/ Throw(Open(fds, "video", e)) \/ Throw(media)
        \/ devices' = Append(devices, device) /\ paths' = Tail(paths) /\ phase' = phase
    BY DEF OpenDevice
  <2>2. device.path = e
    OBVIOUS
  <2> HIDE DEF e, media, device
  <2> QED BY <1>1, <2>1, <2>2 DEF Throw
<1>3. CASE phase' = "down"
  BY <1>1, <1>3 DEF FoundInv
<1>4. ASSUME NEW d, d.path = e, devices' = Append(devices, d), paths' = Tail(paths), phase' = "open"
      PROVE  FoundInv'
  <2>1. ASSUME system.override = << >> PROVE OpeningFound'
    <3>1. OpeningFound
      BY <1>1, <2>1 DEF FoundInv
    <3>2. /\ IsList(devices) /\ IsList(paths) /\ Ordered(paths)
          /\ \A q \in Elements(paths) : IsPath(q)
          /\ Ordered(OpenedPaths) /\ \A q \in Elements(OpenedPaths) : IsPath(q)
          /\ AllBefore(OpenedPaths, paths)
      BY <3>1 DEF OpeningFound, PathList
    <3>3. PICK len \in Nat : len = Len(devices)
      BY <3>2 DEF IsList
    <3>4. /\ IsList(devices') /\ Len(devices') = len + 1 /\ devices'[len + 1] = d
          /\ \A i \in 1 .. len : devices'[i] = devices[i]
      BY <1>4, <3>2, <3>3, AppendList
    <3>5. IsList(OpenedPaths) /\ Len(OpenedPaths) = len
      <4>1. OpenedPaths = [i \in 1 .. len |-> OpenedPaths[i]]
        BY <3>3 DEF OpenedPaths
      <4> QED BY <4>1, MappedList
    <3>6. OpenedPaths' = Append(OpenedPaths, e)
      <4>1. /\ IsList(Append(OpenedPaths, e)) /\ Len(Append(OpenedPaths, e)) = len + 1
            /\ Append(OpenedPaths, e)[len + 1] = e
            /\ \A i \in 1 .. len : Append(OpenedPaths, e)[i] = OpenedPaths[i]
        BY <3>5, AppendList
      <4>2. ASSUME NEW i \in 1 .. len + 1 PROVE devices'[i].path = Append(OpenedPaths, e)[i]
        <5>1. CASE i = len + 1
          BY <1>4, <3>4, <4>1, <5>1
        <5>2. CASE i \in 1 .. len
          <6>1. OpenedPaths[i] = devices[i].path
            BY <3>3, <5>2 DEF OpenedPaths
          <6> QED BY <3>4, <4>1, <5>2, <6>1
        <5>3. i = len + 1 \/ i \in 1 .. len
          OBVIOUS
        <5> QED BY <5>1, <5>2, <5>3
      <4>3. OpenedPaths' = [i \in 1 .. len + 1 |-> devices'[i].path]
        BY <3>4 DEF OpenedPaths
      <4>4. Append(OpenedPaths, e) = [i \in 1 .. len + 1 |-> Append(OpenedPaths, e)[i]]
        BY <4>1 DEF IsList
      <4> QED BY <4>2, <4>3, <4>4
    <3>7. e = paths[1] /\ IsList(Tail(paths)) /\ Elements(paths) = {e} \cup Elements(Tail(paths))
      BY <1>1, <3>2, TailList, TailElements
    <3> HIDE DEF e
    <3>8. /\ Ordered(Tail(paths)) /\ Ordered(Append(OpenedPaths, e))
          /\ AllBefore(Append(OpenedPaths, e), Tail(paths))
      BY <1>1, <3>2, <3>5, <3>7, FrontMoves
    <3>9. /\ IsList(Append(OpenedPaths, e))
          /\ Elements(Append(OpenedPaths, e)) = Elements(OpenedPaths) \cup {e}
      BY <3>5, AppendList, AppendedElements
    <3>10. /\ MediaCount' = MediaCount
           /\ \A k : NodeCount(k)' = NodeCount(k)
           /\ \A k, l : Capable(k, l)' = Capable(k, l)
      BY <1>1 DEF MediaCount, NodeCount, Capable, Listed
    <3>11. \A q : IsPath(q)' = IsPath(q)
      BY <3>10 DEF IsPath
    <3>12. PathList(paths)'
      BY <1>4, <3>2, <3>7, <3>8, <3>11 DEF PathList
    <3>13. PathList(OpenedPaths)' /\ AllBefore(OpenedPaths', paths')
      BY <1>4, <3>2, <3>6, <3>7, <3>8, <3>9, <3>11 DEF PathList
    <3>14. ASSUME NEW k \in 1 .. MediaCount, NEW l \in 1 .. NodeCount(k), Capable(k, l)
           PROVE  <<k, l, TRUE>> \in Elements(OpenedPaths') \/ <<k, l, TRUE>> \in Elements(paths')
      <4>1. <<k, l, TRUE>> \in Elements(OpenedPaths) \/ <<k, l, TRUE>> \in Elements(paths)
        BY <3>1, <3>14 DEF OpeningFound
      <4> QED BY <1>4, <3>6, <3>7, <3>9, <4>1
    <3> QED BY <3>4, <3>10, <3>12, <3>13, <3>14 DEF OpeningFound
  <2> QED BY <1>1, <1>4, <2>1 DEF FoundInv
<1> QED BY <1>2, <1>3, <1>4

\* The same machine, the same lists.
LEMMA PathsStay ==
  system' = system =>
    /\ MediaCount' = MediaCount
    /\ \A k : NodeCount(k)' = NodeCount(k)
    /\ \A k, l : Capable(k, l)' = Capable(k, l)
    /\ \A q : IsPath(q)' = IsPath(q) /\ IsListed(q)' = IsListed(q)
<1> SUFFICES ASSUME system' = system
             PROVE  /\ MediaCount' = MediaCount
                    /\ \A k : NodeCount(k)' = NodeCount(k)
                    /\ \A k, l : Capable(k, l)' = Capable(k, l)
                    /\ \A q : IsPath(q)' = IsPath(q) /\ IsListed(q)' = IsListed(q)
  OBVIOUS
<1>1. /\ MediaCount' = MediaCount
      /\ \A k : NodeCount(k)' = NodeCount(k)
      /\ \A k, l : Capable(k, l)' = Capable(k, l) /\ Listed(k, l)' = Listed(k, l)
  BY DEF MediaCount, NodeCount, Capable, Listed
<1> QED BY <1>1 DEF IsPath, IsListed

LEMMA OpeningStays ==
  OpeningFound /\ system' = system /\ devices' = devices /\ paths' = paths => OpeningFound'
<1> SUFFICES ASSUME OpeningFound, system' = system, devices' = devices, paths' = paths
             PROVE  OpeningFound'
  OBVIOUS
<1>1. OpenedPaths' = OpenedPaths
  BY DEF OpenedPaths
<1>2. PathList(paths)' /\ PathList(OpenedPaths)'
  BY <1>1, PathsStay DEF OpeningFound, PathList
<1> QED BY <1>1, <1>2, PathsStay DEF OpeningFound

LEMMA FoundStay == FoundInv /\ UNCHANGED deviceVars => FoundInv'
<1> SUFFICES ASSUME FoundInv, UNCHANGED deviceVars PROVE FoundInv'
  OBVIOUS
<1>1. /\ system' = system /\ phase' = phase /\ todo' = todo /\ probing' = probing
      /\ paths' = paths /\ devices' = devices
  BY DEF deviceVars
<1>2. Scanning => Scanning'
  <2>1. Scanned' = Scanned
    BY <1>1, PathsStay DEF Scanned
  <2>2. PathList(paths)' = PathList(paths) /\ ListedList(probing)' = ListedList(probing)
    BY <1>1, PathsStay DEF PathList, ListedList
  <2> QED BY <1>1, <2>1, <2>2, PathsStay DEF Scanning
<1> QED BY <1>1, <1>2, OpeningStays DEF FoundInv

LEMMA FoundStep == FoundInv /\ DevicesNext => FoundInv'
<1> SUFFICES ASSUME FoundInv, DevicesNext PROVE FoundInv'
  OBVIOUS
<1>1. CASE ScanMedia
  BY <1>1, ScanStep
<1>2. CASE Probe
  BY <1>2, ProbedStep
<1>3. CASE Override
  BY <1>3, OverrideStep
<1>4. CASE OpenDevice
  BY <1>4, OpenedStep
<1>5. CASE Initialised
  <2>1. /\ phase = "open" /\ phase' = "up" /\ paths = << >> /\ paths' = << >>
        /\ system' = system /\ devices' = devices
    BY <1>5 DEF Initialised
  <2>2. OpeningFound => OpeningFound'
    BY <2>1, OpeningStays
  <2> QED BY <2>1, <2>2 DEF FoundInv
<1>6. CASE Terminate
  BY <1>6 DEF Terminate, FoundInv
<1> QED BY <1>1, <1>2, <1>3, <1>4, <1>5, <1>6 DEF DevicesNext

LEMMA FoundInvariant == Spec => []FoundInv
<1>1. FoundInv /\ [Next]_vars => FoundInv'
  <2> SUFFICES ASSUME FoundInv, [Next]_vars PROVE FoundInv'
    OBVIOUS
  <2>1. CASE UNCHANGED vars
    BY <2>1, FoundStay DEF vars
  <2>2. CASE Use
    <3>1. UNCHANGED deviceVars
      BY <2>2 DEF Use, QueryConfigProfiles, CreateConfig, DestroyConfig, CreateSurfaces, CreateContext
    <3> QED BY <3>1, FoundStay
  <2>3. CASE DevicesNext
    BY <2>3, FoundStep
  <2> QED BY <2>1, <2>2, <2>3 DEF Next
<1> QED BY <1>1, FoundInit, PTL DEF Spec

-----------------------------------------------------------------------------
(* Theorems. *)

\* A configuration that was created can be decoded, and answers with the driver's
\* format, whatever the machine and however long the client's list.
THEOREM ConfigsDecode == Spec => []ConfigsUsable
<1>1. CapInv => ConfigsUsable
  <2> SUFFICES ASSUME CapInv, phase = "up", NEW c \in ConfigIds, configs[c] # NoProfile
               PROVE  /\ Decoders(configs[c]) # {}
                      /\ Len(attributes[c]) <= MaxAttributes
                      /\ attributes[c][1] = GetConfigAttribute("RTFormat")
    BY DEF ConfigsUsable, QueryConfigAttributes
  <2>1. ConfigKept(c)
    BY DEF CapInv, WhileUp
  <2> QED BY <2>1, SupportedDecoded DEF ConfigKept
<1> QED BY <1>1, CapInvariant, PTL

\* A context is made by the codec of its profile, for a device that has the format.
THEOREM ContextsDecode == Spec => []ContextDecodesProfile
<1>1. CapInv => ContextDecodesProfile
  BY DEF CapInv
<1> QED BY <1>1, CapInvariant, PTL

\* With one device, a context that can be created has a capture format.
THEOREM FormatsFound == Spec => []FormatFound
<1>1. CapInv => FormatFound
  BY DEF CapInv
<1> QED BY <1>1, CapInvariant, PTL

\* Devices keep their descriptors and share none, however often the vector grows.
THEOREM DevicesKeepDescriptors == Spec => []DescriptorsHeld
<1>1. CapInv => DescriptorsHeld
  BY DEF CapInv, DevicesInv, DescriptorsHeld, DeviceHeld, NoneShared
<1> QED BY <1>1, CapInvariant, PTL

\* A driver that is gone has closed its devices, however it went.
THEOREM DevicesClosed == Spec => []ClosedAtEnd
<1>1. CapInv => ClosedAtEnd
  BY DEF CapInv, DevicesInv
<1> QED BY <1>1, CapInvariant, PTL

\* The driver's devices are those the system has: every video device of a decoder
\* that is capable of memory to memory, each once, in the order of the system, for
\* any number of media devices and nodes.
THEOREM DevicesFound == Spec => []CapableDevices
<1>1. FoundInv => CapableDevices
  <2> SUFFICES ASSUME FoundInv, phase = "up", system.override = << >> PROVE CapableDevices
    BY DEF CapableDevices
  <2> DEFINE Of(m) == {<<m, n>> : n \in {k \in DOMAIN system.media[m].nodes :
                        LET node == system.media[m].nodes[k]
                        IN system.media[m].decoder /\ node.video /\ node.known
                           /\ Capabilities(node) \cap Required # {}}}
             found == [i \in DOMAIN devices |-> SubSeq(devices[i].path, 1, 2)]
             All == UNION {Of(m) : m \in DOMAIN system.media}
  <2>1. OpeningFound /\ paths = << >> /\ Lists
    BY SystemLists DEF FoundInv
  <2>2. PICK len \in Nat : len = Len(devices)
    BY <2>1 DEF OpeningFound, IsList
  <2>3. DOMAIN devices = 1 .. len
    BY <2>1, <2>2 DEF OpeningFound, IsList
  <2>4. IsList(OpenedPaths) /\ Len(OpenedPaths) = len
    <3>1. OpenedPaths = [i \in 1 .. len |-> OpenedPaths[i]]
      BY <2>2 DEF OpenedPaths
    <3> QED BY <3>1, MappedList
  <2>5. \A i \in 1 .. len : OpenedPaths[i] = devices[i].path
    BY <2>2 DEF OpenedPaths
  <2>6. \A i \in 1 .. len : IsPath(devices[i].path)
    <3>1. \A q \in Elements(OpenedPaths) : IsPath(q)
      BY <2>1 DEF OpeningFound, PathList
    <3> QED BY <2>4, <2>5, <3>1 DEF Elements
  <2>7. \A m, n : SubSeq(<<m, n, TRUE>>, 1, 2) = <<m, n>>
    BY PathOf
  <2>8. \A i \in 1 .. len :
          /\ found[i][1] = devices[i].path[1] /\ found[i][2] = devices[i].path[2]
          /\ found[i] = <<devices[i].path[1], devices[i].path[2]>>
    <3> SUFFICES ASSUME NEW i \in 1 .. len
                 PROVE  /\ found[i][1] = devices[i].path[1] /\ found[i][2] = devices[i].path[2]
                        /\ found[i] = <<devices[i].path[1], devices[i].path[2]>>
      OBVIOUS
    <3>1. PICK m, n : devices[i].path = <<m, n, TRUE>>
      BY <2>6 DEF IsPath
    <3>2. found[i] = <<m, n>>
      BY <2>3, <2>7, <3>1
    <3> HIDE DEF found
    <3> QED BY <3>1, <3>2
  <2>9. DOMAIN found = 1 .. len
    BY <2>3
  <2>10. \A m \in 1 .. MediaCount : \A n \in 1 .. NodeCount(m) :
           Capable(m, n) => \E i \in 1 .. len : devices[i].path = <<m, n, TRUE>>
    <3> SUFFICES ASSUME NEW m \in 1 .. MediaCount, NEW n \in 1 .. NodeCount(m), Capable(m, n)
                 PROVE  \E i \in 1 .. len : devices[i].path = <<m, n, TRUE>>
      OBVIOUS
    <3>1. <<m, n, TRUE>> \in Elements(OpenedPaths)
      BY <2>1, EmptyList DEF OpeningFound
    <3> QED BY <2>4, <2>5, <3>1 DEF Elements
  <2>11. \A m, n : <<m, n>> \in All <=> m \in 1 .. MediaCount /\ n \in 1 .. NodeCount(m) /\ Capable(m, n)
    <3> SUFFICES ASSUME NEW m, NEW n
                 PROVE  <<m, n>> \in All <=>
                          m \in 1 .. MediaCount /\ n \in 1 .. NodeCount(m) /\ Capable(m, n)
      OBVIOUS
    <3>1. DOMAIN system.media = 1 .. MediaCount
      BY <2>1 DEF Lists
    <3>2. \A k \in 1 .. MediaCount : DOMAIN system.media[k].nodes = 1 .. NodeCount(k)
      BY <2>1 DEF Lists
    <3>3. \A k \in 1 .. MediaCount : \A x :
            x \in Of(k) <=> \E l \in 1 .. NodeCount(k) : x = <<k, l>> /\ Capable(k, l)
      BY <3>2 DEF Capable, Listed
    <3> HIDE DEF Of
    <3> QED BY <3>1, <3>3
  <2> HIDE DEF found, All
  <2>12. ToSet(found) = All
    <3>1. ASSUME NEW x \in ToSet(found) PROVE x \in All
      <4>1. PICK i \in 1 .. len : x = found[i]
        BY <2>9, <3>1 DEF ToSet
      <4>2. PICK m, n : /\ m \in 1 .. MediaCount /\ n \in 1 .. NodeCount(m)
                        /\ devices[i].path = <<m, n, TRUE>> /\ Capable(m, n)
        BY <2>6 DEF IsPath
      <4>3. x = <<m, n>>
        BY <2>8, <4>1, <4>2
      <4> QED BY <2>11, <4>2, <4>3
    <3>2. ASSUME NEW x \in All PROVE x \in ToSet(found)
      <4>1. PICK m, n : x = <<m, n>>
        BY <3>2 DEF All
      <4>2. PICK i \in 1 .. len : devices[i].path = <<m, n, TRUE>>
        BY <2>10, <2>11, <3>2, <4>1
      <4>3. found[i] = x
        BY <2>8, <4>1, <4>2
      <4> QED BY <2>9, <4>3 DEF ToSet
    <3> QED BY <3>1, <3>2
  <2>13. \A i, j \in DOMAIN found :
            i < j => \/ found[i][1] < found[j][1]
                     \/ found[i][1] = found[j][1] /\ found[i][2] < found[j][2]
    <3> SUFFICES ASSUME NEW i \in 1 .. len, NEW j \in 1 .. len, i < j
                 PROVE  \/ found[i][1] < found[j][1]
                        \/ found[i][1] = found[j][1] /\ found[i][2] < found[j][2]
      BY <2>9
    <3>1. Before(devices[i].path, devices[j].path)
      BY <2>1, <2>4, <2>5 DEF OpeningFound, PathList, Ordered
    <3> QED BY <2>8, <3>1 DEF Before
  <2> QED BY <2>12, <2>13 DEF CapableDevices, found, All
<1> QED BY <1>1, FoundInvariant, PTL
=============================================================================
