------------------------------- MODULE Devices -------------------------------
(***************************************************************************)
(* How the driver comes by its devices (v4l2.cc, driver.cc): the media     *)
(* devices of the machine are scanned for decoders, the video devices of   *)
(* those are probed, and what is found, or what the environment names      *)
(* instead, is opened into DriverData::devices.                            *)
(*                                                                         *)
(* The machine does not change.  A call that fails throws: out of          *)
(* vaDriverInit, after what was constructed has been destroyed.            *)
(***************************************************************************)
EXTENDS Integers, Sequences, SequencesExt, FiniteSets

CONSTANTS
  Systems   \* the machines: the media devices udev lists, and what the environment
            \* names instead of them

\* A video node: what its interface and udev say of it, whether it can be opened,
\* answers the query of its capabilities and has formats, its capabilities, and the
\* formats it lists.
Capability == {"M2M", "M2M_MPLANE", "CAPTURE", "DEVICE_CAPS"}
Codecs == <<"MPEG2", "H264", "VP8", "VP9">>
CaptureFormats == {"NV12", "NV12M", "tiled"}
Node ==
  [video : BOOLEAN, known : BOOLEAN, opens : BOOLEAN, answers : BOOLEAN, formats : BOOLEAN,
   capabilities : SUBSET Capability, device_caps : SUBSET Capability,
   coded : SUBSET ToSet(Codecs), capture : SUBSET CaptureFormats]

\* A media device: whether it can be opened, answers the queries of its topology,
\* has an entity that is a decoder, and the nodes of its interfaces.
IsMediaDevice(m) ==
  /\ {m.opens, m.answers, m.decoder} \subseteq BOOLEAN
  /\ m.nodes \in Seq(Node)

IsSystem(s) ==
  /\ Len(s.media) \in Nat /\ DOMAIN s.media = 1 .. Len(s.media)
  /\ \A m \in DOMAIN s.media : IsMediaDevice(s.media[m])
  /\ s.override # << >> =>
       /\ s.override[1] \in DOMAIN s.media
       /\ s.override[2] \in DOMAIN s.media[s.override[1]].nodes

ASSUME SystemsAssumption == \A s \in Systems : IsSystem(s)

VARIABLES
  system,    \* the machine
  phase,     \* of the driver: "scan", "open", "up", "down"
  todo,      \* media devices to be scanned
  probing,   \* video devices of the last one, to be probed
  paths,     \* device paths: <<media device, node, with the media device>>
  fds,       \* the open file descriptors of the process, each with what it was opened for
  devices,   \* DriverData::devices
  capacity   \* of that vector

deviceVars == <<system, phase, todo, probing, paths, fds, devices, capacity>>

FirstFd == 3   \* behind the standard streams
NoFd == -1
Required == {"M2M", "M2M_MPLANE"}

MediaOf(path) == system.media[path[1]]
NodeOf(path) == MediaOf(path).nodes[path[2]]

NextFd(open) ==
  CHOOSE fd \in FirstFd .. FirstFd + Cardinality(open) :
    fd \notin open /\ \A lower \in FirstFd .. fd - 1 : lower \in open
Open(table, use, path) ==
  [fd \in DOMAIN table \cup {NextFd(DOMAIN table)} |->
     IF fd \in DOMAIN table THEN table[fd] ELSE [of |-> use, path |-> path]]
Close(table, closed) == [fd \in DOMAIN table \ closed |-> table[fd]]

\* query_capabilities
Capabilities(node) ==
  IF "DEVICE_CAPS" \in node.capabilities THEN node.device_caps ELSE node.capabilities

\* The descriptors that the destructors of these devices close.
Owned(devs) == UNION {{devs[i].video_fd, devs[i].media_fd} \ {NoFd} : i \in DOMAIN devs}

\* An exception leaves vaDriverInit.
Throw(table) ==
  /\ phase' = "down"
  /\ devices' = << >>
  /\ fds' = Close(table, Owned(devices))
  /\ UNCHANGED <<todo, probing, paths, capacity>>

\* enumerate_video_devices: the interfaces of a media device with a decoder, one
\* after the other.
Interfaces(m) ==
  LET media == system.media[m]
      listed(n) == media.decoder /\ media.nodes[n].video /\ media.nodes[n].known
      result[n \in 0 .. Len(media.nodes)] ==
        IF n = 0 THEN << >> ELSE IF listed(n) THEN Append(result[n - 1], n) ELSE result[n - 1]
  IN result[Len(media.nodes)]

\* The descriptor is closed behind the queries: one that fails leaves it open.
ScanMedia ==
  /\ phase = "scan" /\ probing = << >> /\ todo # << >>
  /\ IF ~system.media[Head(todo)].opens THEN Throw(fds)
     ELSE IF ~system.media[Head(todo)].answers THEN Throw(Open(fds, "scanned", <<Head(todo)>>))
     ELSE /\ todo' = Tail(todo)
          /\ probing' = [n \in DOMAIN Interfaces(Head(todo)) |-> <<Head(todo), Interfaces(Head(todo))[n]>>]
          /\ UNCHANGED <<phase, paths, fds, devices, capacity>>
  /\ UNCHANGED system

\* Variant: whatever the device can do.
ProbeAny ==
  /\ phase = "scan" /\ probing # << >>
  /\ NodeOf(Head(probing)).opens /\ NodeOf(Head(probing)).answers
  /\ fds' = Open(fds, "probed", Head(probing))
  /\ paths' = Append(paths, Append(Head(probing), TRUE))
  /\ probing' = Tail(probing)
  /\ UNCHANGED <<system, phase, todo, devices, capacity>>

\* enumerate_devices: the descriptor stays open, and so when the query fails.
Probe ==
  /\ phase = "scan" /\ probing # << >>
  /\ IF ~NodeOf(Head(probing)).opens THEN Throw(fds)
     ELSE IF ~NodeOf(Head(probing)).answers THEN Throw(Open(fds, "probed", Head(probing)))
     ELSE /\ fds' = Open(fds, "probed", Head(probing))
          /\ paths' = IF Capabilities(NodeOf(Head(probing))) \cap Required # {}
                      THEN Append(paths, Append(Head(probing), TRUE)) ELSE paths
          /\ probing' = Tail(probing)
          /\ UNCHANGED <<phase, todo, devices, capacity>>
  /\ UNCHANGED system

\* VA_DRIVER_INIT_FUNC: the environment replaces what was found.
Override ==
  /\ phase = "scan" /\ probing = << >> /\ todo = << >>
  /\ paths' = IF system.override # << >> THEN <<system.override>> ELSE paths
  /\ phase' = "open"
  /\ UNCHANGED <<system, todo, probing, fds, devices, capacity>>

\* Variant: the move constructor leaves the descriptors in the other object.
GrowKeepsOther(table, devs) == Close(table, IF Len(devs) = capacity THEN Owned(devs) ELSE {})

\* A vector that is full moves its elements and destroys the moved ones, which
\* have no descriptors any more.
Grow(table, devs) ==
  LET moved == [i \in DOMAIN devs |-> [devs[i] EXCEPT !.video_fd = NoFd, !.media_fd = NoFd]]
  IN Close(table, IF Len(devs) = capacity THEN Owned(moved) ELSE {})

\* The constructor of V4L2M2MDevice.  Its members are integers: when it throws,
\* what it opened stays open.  It does not throw for missing capabilities.
OpenDevice ==
  /\ phase = "open" /\ paths # << >>
  /\ LET path   == Head(paths)
         video  == Open(fds, "video", path)
         media  == IF path[3] THEN Open(video, "media", path) ELSE video
         device == [video_fd |-> NextFd(DOMAIN fds),
                    media_fd |-> IF path[3] THEN NextFd(DOMAIN video) ELSE NoFd, path |-> path]
     IN IF ~NodeOf(path).opens THEN Throw(fds)
        ELSE IF path[3] /\ ~MediaOf(path).opens THEN Throw(video)
        ELSE IF ~NodeOf(path).answers \/ ~NodeOf(path).formats THEN Throw(media)
        ELSE /\ devices' = Append(devices, device)
             /\ fds' = Grow(media, devices)
             /\ capacity' = CASE Len(devices) < capacity -> capacity
                              [] capacity = 0             -> 1
                              [] OTHER                    -> 2 * capacity
             /\ paths' = Tail(paths)
             /\ UNCHANGED <<phase, todo, probing>>
  /\ UNCHANGED system

Initialised ==
  /\ phase = "open" /\ paths = << >>
  /\ phase' = "up"
  /\ UNCHANGED <<system, todo, probing, paths, fds, devices, capacity>>

\* Variant: the destructor closes the video device only.
CloseVideo ==
  /\ devices' = << >>
  /\ fds' = Close(fds, {devices[i].video_fd : i \in DOMAIN devices})

\* terminate: the devices are destroyed with the driver's data.
CloseDevices ==
  /\ devices' = << >>
  /\ fds' = Close(fds, Owned(devices))

Terminate ==
  /\ phase = "up"
  /\ phase' = "down"
  /\ CloseDevices
  /\ UNCHANGED <<system, todo, probing, paths, capacity>>

DevicesInit ==
  /\ system \in Systems
  /\ phase = "scan"
  /\ todo = [m \in DOMAIN system.media |-> m]
  /\ probing = << >> /\ paths = << >> /\ devices = << >>
  /\ fds = << >>
  /\ capacity = 0

DevicesNext ==
  \/ ScanMedia
  \/ Probe
  \/ Override
  \/ OpenDevice
  \/ Initialised
  \/ Terminate

-----------------------------------------------------------------------------
(* Properties. *)

\* Every device keeps the descriptors it opened, of its own video and media
\* device, while the vector grows around it and others fail: none is closed
\* behind its back, and none is shared.
DescriptorsHeld ==
  /\ \A i \in DOMAIN devices :
       LET d == devices[i]
       IN /\ d.video_fd \in DOMAIN fds /\ fds[d.video_fd] = [of |-> "video", path |-> d.path]
          /\ d.path[3] => d.media_fd \in DOMAIN fds /\ fds[d.media_fd] = [of |-> "media", path |-> d.path]
  /\ \A i, j \in DOMAIN devices : i # j => Owned(<<devices[i]>>) \cap Owned(<<devices[j]>>) = {}

\* What the code leaves open: the descriptor of a probe, that of the media device
\* whose queries failed, at which the scan was given up, and those of the device whose
\* constructor failed.
LeftOpen(file) ==
  \/ file.of = "probed"
  \/ file.of = "scanned" /\ todo # << >> /\ file.path = <<Head(todo)>>
  \/ file.of \in {"video", "media"} /\ paths # << >> /\ file.path = Head(paths)

\* When the driver is gone, so are the descriptors of the devices it made, and those
\* of the media devices it scanned: after vaTerminate only those of probes stay,
\* and after a failure those of the one device that failed.
ClosedAtEnd == phase = "down" => \A fd \in DOMAIN fds : LeftOpen(fds[fd])

\* The driver's devices are those the system has: every video device of a decoder
\* that is capable of memory to memory, each once, in the order of the system.
CapableDevices ==
  phase = "up" /\ system.override = << >> =>
    LET of(m) == {<<m, n>> : n \in {k \in DOMAIN system.media[m].nodes :
                    LET node == system.media[m].nodes[k]
                    IN system.media[m].decoder /\ node.video /\ node.known
                       /\ Capabilities(node) \cap Required # {}}}
        found == [i \in DOMAIN devices |-> SubSeq(devices[i].path, 1, 2)]
    IN /\ ToSet(found) = UNION {of(m) : m \in DOMAIN system.media}
       /\ \A i, j \in DOMAIN found :
            i < j => \/ found[i][1] < found[j][1]
                     \/ found[i][1] = found[j][1] /\ found[i][2] < found[j][2]
=============================================================================
