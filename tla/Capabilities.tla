----------------------------- MODULE Capabilities -----------------------------
(***************************************************************************)
(* What the driver says it can decode and what it can: the profiles of the *)
(* devices (supported_profiles of the codecs and of Context), the queries  *)
(* and configurations of config.cc, the formats of surfaces (surface.cc),  *)
(* and the choice of a device for a context (context.cc).                  *)
(*                                                                         *)
(* A profile is its number in the VAProfile enumeration, which orders the  *)
(* sets the driver makes.                                                  *)
(***************************************************************************)
EXTENDS Devices

CONSTANTS
  MaxProfiles,   \* V4L2_MAX_PROFILES
  MaxAttributes, \* Config::max_attributes
  EnableVP9,     \* the driver was built with ENABLE_VP9
  ConfigIds,     \* ids of configurations, 0 .. n - 1: bound of the map
  Requests       \* the lists of attributes a client may create one with

ASSUME CapabilitiesAssumption ==
  /\ MaxProfiles \in Nat /\ MaxAttributes \in Nat \ {0}
  /\ EnableVP9 \in BOOLEAN /\ ConfigIds \subseteq Nat
  /\ Requests \subseteq Seq([type : STRING, value : STRING])

VARIABLES
  configs,      \* DriverData::configs: the profile of each that exists
  attributes,   \* Config::attributes of each
  surfaces,     \* there are surfaces to create a context with
  advertised,   \* the profiles vaQueryConfigProfiles returned
  context,      \* the last context: its profile, codec and device
  crashed       \* the format after the last one of the table was used

vars == <<deviceVars, configs, attributes, surfaces, advertised, context, crashed>>

NoProfile == -1
NoContext == [profile |-> NoProfile, codec |-> "none", device |-> 0]

\* supported_profiles of the codecs, by the enumeration of va.h.
MPEG2Profiles == {0, 1}
H264Profiles == {6, 7, 13, 15, 16}
VP8Profiles == {14}
VP9Profiles == {19, 20, 21, 22}

ProfilesOf(codec) ==
  CASE codec = "MPEG2" -> MPEG2Profiles
    [] codec = "H264"  -> H264Profiles
    [] codec = "VP8"   -> VP8Profiles
    [] codec = "VP9"   -> IF EnableVP9 THEN VP9Profiles ELSE {}

AllProfiles == UNION {ProfilesOf(Codecs[c]) : c \in 1 .. Len(Codecs)}

\* A device supports the profiles of the coded formats it enumerates.
Decodes(device, codec) == codec \in NodeOf(device.path).coded
DeviceProfiles(device) ==
  UNION {ProfilesOf(Codecs[c]) : c \in {k \in 1 .. Len(Codecs) : Decodes(device, Codecs[k])}}
Supported == UNION {DeviceProfiles(devices[i]) : i \in 1 .. Len(devices)}

\* matching_format: the formats of the table are NV12 and NV12M.
Matches(device) == NodeOf(device.path).capture \cap {"NV12", "NV12M"} # {}

-----------------------------------------------------------------------------
\* The first profiles in the order of the enumeration, as many as fit.
QueryConfigProfiles ==
  /\ advertised' = {p \in Supported : Cardinality({q \in Supported : q < p}) < MaxProfiles}
  /\ UNCHANGED <<deviceVars, configs, attributes, surfaces, context, crashed>>

\* vaGetConfigAttributes, whatever the profile.
GetConfigAttribute(type) ==
  [type |-> type, value |-> IF type = "RTFormat" THEN "YUV420" ELSE "unsupported"]

\* The driver's own attribute comes first, in the place of the client's first.
Stored(given) ==
  <<GetConfigAttribute("RTFormat")>>
    \o SubSeq(given, 2, IF Len(given) < MaxAttributes THEN Len(given) ELSE MaxAttributes)

SmallestFree == {c \in ConfigIds : configs[c] = NoProfile /\ \A d \in ConfigIds : d < c => configs[d] # NoProfile}

\* Variant: every profile the driver knows is accepted.
CreateConfigUnchecked(p, given) ==
  /\ \E c \in SmallestFree :
       /\ configs' = [configs EXCEPT ![c] = p]
       /\ attributes' = [attributes EXCEPT ![c] = Stored(given)]
  /\ UNCHANGED <<deviceVars, surfaces, advertised, context, crashed>>

CreateConfig(p, given) ==
  /\ p \in Supported
  /\ \E c \in SmallestFree :
       /\ configs' = [configs EXCEPT ![c] = p]
       /\ attributes' = [attributes EXCEPT ![c] = Stored(given)]
  /\ UNCHANGED <<deviceVars, surfaces, advertised, context, crashed>>

DestroyConfig(c) ==
  /\ configs[c] # NoProfile
  /\ configs' = [configs EXCEPT ![c] = NoProfile]
  /\ attributes' = [attributes EXCEPT ![c] = << >>]
  /\ UNCHANGED <<deviceVars, surfaces, advertised, context, crashed>>

\* vaQueryConfigAttributes: what the client gets, in an array of MaxAttributes.
QueryConfigAttributes(c) == [profile |-> configs[c], attributes |-> attributes[c]]

\* Variant: the device is not asked for its formats.
CreateSurfacesUnchecked ==
  /\ surfaces' = TRUE
  /\ UNCHANGED <<deviceVars, configs, attributes, advertised, context, crashed>>

\* Surfaces are created when one of the devices has a format for them.
CreateSurfaces ==
  /\ \E i \in 1 .. Len(devices) : Matches(devices[i])
  /\ surfaces' = TRUE
  /\ UNCHANGED <<deviceVars, configs, attributes, advertised, context, crashed>>

\* Variant: the first device, whatever it decodes.
DecodersFirstDevice(p) ==
  {<<1, c>> : c \in {k \in 1 .. Len(Codecs) : p \in ProfilesOf(Codecs[k])}}

\* Context::create: the devices in order, and for each the codecs in order.
Decoders(p) ==
  {choice \in (1 .. Len(devices)) \X (1 .. Len(Codecs)) :
     Decodes(devices[choice[1]], Codecs[choice[2]]) /\ p \in ProfilesOf(Codecs[choice[2]])}
FirstChoice(p) ==
  CHOOSE choice \in Decoders(p) : \A other \in Decoders(p) :
    choice[1] < other[1] \/ (choice[1] = other[1] /\ choice[2] <= other[2])

\* A device without a matching format makes the driver read past its table,
\* which ends the process or sets some other format.
CreateContext(c) ==
  /\ surfaces
  /\ configs[c] # NoProfile
  /\ Decoders(configs[c]) # {}
  /\ LET choice == FirstChoice(configs[c])
     IN /\ context' = [profile |-> configs[c], codec |-> Codecs[choice[2]], device |-> choice[1]]
        /\ crashed' \in IF Matches(devices[choice[1]]) THEN {FALSE} ELSE BOOLEAN
  /\ UNCHANGED <<deviceVars, configs, attributes, surfaces, advertised>>

Init ==
  /\ DevicesInit
  /\ configs = [c \in ConfigIds |-> NoProfile]
  /\ attributes = [c \in ConfigIds |-> << >>]
  /\ surfaces = FALSE
  /\ advertised = {}
  /\ context = NoContext
  /\ crashed = FALSE

\* What the client does with the driver.
Use ==
  /\ phase = "up" /\ ~crashed
  /\ \/ QueryConfigProfiles
     \/ \E p \in AllProfiles, given \in Requests : CreateConfig(p, given)
     \/ \E c \in ConfigIds : DestroyConfig(c)
     \/ CreateSurfaces
     \/ \E c \in ConfigIds : CreateContext(c)

Next ==
  \/ Use
  \/ ~crashed /\ DevicesNext /\ UNCHANGED <<configs, attributes, surfaces, advertised, context, crashed>>

Spec == Init /\ [][Next]_vars

-----------------------------------------------------------------------------
(* Properties. *)

\* A configuration that was created can be decoded: createConfig asks all of the
\* devices together, Context::create asks them one by one.  And it answers in the
\* array of the client, whatever list it was created with, first with the format
\* that the driver told of every profile.
ConfigsUsable ==
  \A c \in ConfigIds : phase = "up" /\ configs[c] # NoProfile =>
    LET answer == QueryConfigAttributes(c).attributes
    IN /\ Decoders(configs[c]) # {}
       /\ Len(answer) <= MaxAttributes /\ answer[1] = GetConfigAttribute("RTFormat")

\* The context was made by the codec of its profile, for a device that has it.
ContextDecodesProfile ==
  phase = "up" /\ context # NoContext =>
    /\ context.profile \in ProfilesOf(context.codec)
    /\ context.codec \in NodeOf(devices[context.device].path).coded

\* The surfaces that could be created have a format on the device of the context.
\* vaCreateSurfaces asks all devices: with two of them nothing is promised.
FormatFound == Len(devices) = 1 => ~crashed

\* README.md:24, "The driver probes the system for appropriate V4L2 devices,
\* advertising all of their capabilities.": every profile the driver accepts.
AdvertisesAll == advertised # {} => advertised = Supported
=============================================================================
