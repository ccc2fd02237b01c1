------------------------------- MODULE H264Dpb -------------------------------
(***************************************************************************)
(* The decoded picture buffer of an H264 context (h264.cc): the table that *)
(* tells the device which surfaces hold the references of the picture that *)
(* is submitted.  A picture is known by its surface; frame numbers, picture*)
(* order and field flags are left out, they are copied along.              *)
(*                                                                         *)
(* H264Context::set_controls is one action.  The stream chooses the order  *)
(* of pictures, the references of each and the surfaces they go to.        *)
(***************************************************************************)
EXTENDS Integers, Sequences, SequencesExt, FiniteSetsExt

CONSTANTS
  Surfaces,    \* surface ids, each can hold a picture
  Size,        \* H264_DPB_SIZE
  MaxRefs,     \* most references of a picture of the stream
  MaxAge,      \* UINT_MAX, the largest age
  MaxSubmitted \* bound: pictures submitted in a behaviour; half as many on a
               \* table that did not start as zeros, or with gaps in the stream

ASSUME DpbAssumption ==
  /\ IsFiniteSet(Surfaces) /\ "none" \notin Surfaces
  /\ Size \in Nat \ {0} /\ MaxRefs \in 0 .. Size
  /\ MaxAge \in Nat \ {0} /\ MaxSubmitted \in Nat

VARIABLES
  zeroed,     \* the context was allocated in zeroed memory
  gaps,       \* the stream may refer to pictures it did not decode before
  dpb,        \* h264_dpb::entries
  age,        \* h264_dpb::age
  crashed,    \* a null entry was followed
  refs,       \* ReferenceFrames of the last picture
  current,    \* CurrPic of that picture
  active,     \* pictures its decode_params marked VALID and ACTIVE
  submitted   \* number of pictures submitted

dpbVars == <<zeroed, gaps, dpb, age, crashed, refs, current, active, submitted>>

Slots == 1 .. Size
NoSlot == 0
NoSurface == "none"
Pics == Surfaces \cup {NoSurface}

Cleared == [pic |-> NoSurface, age |-> 0, used |-> FALSE, valid |-> FALSE, reserved |-> FALSE]

\* What is left of a table when a null entry is followed.
Broken == << >>

Lookup(d, p) ==
  LET found == {i \in Slots : d[i].valid /\ d[i].pic = p}
  IN IF found = {} THEN NoSlot ELSE Min(found)

\* Variant: only entries that were never filled.
FindEntryFree(d) ==
  LET free == {i \in Slots : ~d[i].valid /\ ~d[i].reserved}
  IN IF free # {} THEN Min(free) ELSE NoSlot

\* A slot that is neither valid nor reserved, or the one unused for longest.
\* The second choice does not look at "reserved", nor at an age of UINT_MAX.
FindEntry(d) ==
  LET free   == {i \in Slots : ~d[i].valid /\ ~d[i].reserved}
      unused == {i \in Slots : ~d[i].used /\ d[i].age < MaxAge}
      oldest == {i \in unused : \A j \in unused : d[i].age <= d[j].age}
  IN IF free # {} THEN Min(free) ELSE IF unused # {} THEN Min(oldest) ELSE NoSlot

\* dpb_insert: nothing if the picture is there, else into slot i or a new one.
Insert(d, now, p, i) ==
  LET slot == IF i = NoSlot THEN FindEntry(d) ELSE i
  IN IF Lookup(d, p) # NoSlot THEN d
     ELSE IF slot = NoSlot THEN Broken
     ELSE [d EXCEPT ![slot] = [pic |-> p, age |-> now, used |-> TRUE, valid |-> TRUE,
                               reserved |-> FALSE]]

\* dpb_update, one reference: its entry is used again, or a new one is inserted.
Touch(d, now, p) ==
  IF d = Broken THEN Broken
  ELSE IF Lookup(d, p) = NoSlot THEN Insert(d, now, p, NoSlot)
  ELSE [d EXCEPT ![Lookup(d, p)] = [@ EXCEPT !.age = now, !.used = TRUE]]

\* Variant: the entries of the picture before stay used.
UpdateKeepsUsed(d, now, pics) ==
  LET touched[n \in 0 .. Len(pics)] ==
        IF n = 0 THEN d ELSE Touch(touched[n - 1], now, pics[n])
  IN touched[Len(pics)]

\* dpb_update: the references, one after the other, are the used entries.
Unused(d) == [i \in Slots |-> [d[i] EXCEPT !.used = FALSE]]
Update(d, now, pics) ==
  LET touched[n \in 0 .. Len(pics)] ==
        IF n = 0 THEN Unused(d) ELSE Touch(touched[n - 1], now, pics[n])
  IN touched[Len(pics)]

\* Variant: the first slot that is not used by a reference of the last picture.
OutputSlotFirst(d, c) ==
  LET unused == {i \in Slots : ~d[i].used} IN IF unused = {} THEN NoSlot ELSE Min(unused)

\* dpb_update counts the pictures in an unsigned int.
NextAge == (age + 1) % (MaxAge + 1)

\* The slot of the picture to be decoded: its own or a new one.
OutputSlot(d, c) == IF Lookup(d, c) # NoSlot THEN Lookup(d, c) ELSE FindEntry(d)
Reserve(d, c) ==
  IF OutputSlot(d, c) = NoSlot THEN Broken
  ELSE [d EXCEPT ![OutputSlot(d, c)] = [Cleared EXCEPT !.reserved = TRUE]]

\* The table that decode_params describes.
Described(c, pics) ==
  IF Reserve(dpb, c) = Broken THEN Broken ELSE Update(Reserve(dpb, c), NextAge, pics)

\* What the stream may ask for next: references are what it decoded or referred
\* to before, the second field of a picture refers to the first one.
MayFollow(c, R) ==
  /\ submitted < IF zeroed /\ ~gaps THEN MaxSubmitted ELSE MaxSubmitted \div 2
  /\ Cardinality(R) <= MaxRefs
  /\ gaps \/ R \subseteq refs \cup ({current} \ {NoSurface})
  /\ c \in R => c = current

SetControlsCrash(c, pics) ==
  /\ Described(c, pics) = Broken
  /\ crashed' = TRUE
  /\ UNCHANGED <<zeroed, gaps, dpb, age, refs, current, active, submitted>>

Submit(c, pics) ==
  LET d == Described(c, pics)
  IN /\ d # Broken
     /\ age' = NextAge
     /\ submitted' = submitted + 1
     /\ refs' = ToSet(pics)
     /\ current' = c
     /\ active' = {d[i].pic : i \in {j \in Slots : d[j].valid /\ d[j].used}}
     /\ UNCHANGED <<zeroed, gaps, crashed>>

DpbSetControls(c, pics) ==
  /\ Submit(c, pics)
  /\ dpb' = Insert(Described(c, pics), NextAge, c, OutputSlot(dpb, c))

\* VIDIOC_S_EXT_CTRLS fails: the picture gets no entry, its slot stays reserved.
DpbSetControlsFail(c, pics) ==
  /\ Submit(c, pics)
  /\ dpb' = Described(c, pics)

\* The constructor initialises neither the entries nor the age: what was in the
\* memory of the first entry, and zeros behind.
AnyEntry == [pic : Pics, age : {0, MaxAge}, used : BOOLEAN, valid : BOOLEAN, reserved : BOOLEAN]
AnyTable == {[i \in Slots |-> IF i = 1 THEN e ELSE Cleared] : e \in AnyEntry}

DpbInit ==
  /\ zeroed \in BOOLEAN
  /\ gaps \in {FALSE, zeroed}
  /\ dpb \in IF zeroed THEN {[i \in Slots |-> Cleared]} ELSE AnyTable
  /\ age \in IF zeroed THEN {0} ELSE {0, MaxAge}
  /\ crashed = FALSE
  /\ refs = {} /\ current = NoSurface /\ active = {}
  /\ submitted = 0

\* A picture on surface c with these references may be submitted.
DpbReady(c, R) == ~crashed /\ MayFollow(c, R)

-----------------------------------------------------------------------------
(* Properties. *)

\* The device is told of exactly the references the client gave, in whatever
\* order they came, after failed submissions, and whatever memory the table
\* started with.
ActiveAreRefs == active = refs

\* A stream with MaxRefs references never runs out of slots: there has to be one
\* for every reference, for the last picture and for the next one, and the slots
\* that failed submissions left reserved are found again.
SlotsSuffice == zeroed => ~crashed

\* A picture that is referred to again keeps its slot, whatever was decoded or
\* failed in between: its entry was not given to another picture.
ReferencesStay ==
  [][zeroed /\ ~gaps => \A p \in refs' \ {current'} :
       Lookup(dpb, p) # NoSlot => Lookup(dpb', p) = Lookup(dpb, p)]_dpbVars
=============================================================================
